---------------------------- MODULE Spec2Model ----------------------------
(***************************************************************************)
(* OmniMIDI Audio Bus (src/OmniMIDI/AudioBus.h): the shared-memory header, *)
(* the takeover state machine, the double-buffered audio exchange and the  *)
(* liveness monitor, as a state machine of four threads:                   *)
(*   audio  - the synth's audio thread: capture hook, ProcessAudioFrame,   *)
(*            ReadProcessedAudio;                                          *)
(*   ctl    - the synth's management thread: RequestTakeover,              *)
(*            ReleaseTakeover, the panic poller, Destroy, Create;          *)
(*   host   - the effects host's consumer thread (Permafrost);             *)
(*   hctl   - the host's control thread: RequestPanic, ClearPanicAck.      *)
(* A second synth process, where there is one, runs the same code on the   *)
(* objects that the names of AudioBus_Create designate.                    *)
(* A read or write of shared memory that another thread can interleave     *)
(* with is a step of its own; a thread's position is its pc.  Adjacent     *)
(* accesses are one step only where no other thread's step in between      *)
(* could change what either of them does.                                  *)
(*                                                                         *)
(* Time is abstracted as follows.  A bounded mutex wait (100 ms) or an     *)
(* INFINITE one gets the mutex when it is free; the bounded wait times out *)
(* only when the holder is a host that has stopped.  A zero-timeout try    *)
(* fails whenever the mutex is held.  The 50 ms wait on ProcessedReady can *)
(* time out whenever the event is not set, unless the host is "prompt"     *)
(* and still has an answer on its way.  A host is "prompt", "late" (it     *)
(* answers, in no bounded time) or "stopped" (hung for good).              *)
(***************************************************************************)
EXTENDS Integers, Naturals, Sequences, FiniteSets, TLC

\* ---- bounds of the model ----
MaxBeats == 3      \* ProcessAudioFrame calls under Spec; where LiveSpec's counters stop
MaxCount == 6      \* ProcessAudioFrame calls under ScenarioSpec
MaxLife == 2       \* ProcessAudioFrame calls per lifetime of the bus under LifetimeSpec
MaxShared == 2     \* ProcessAudioFrame calls of both processes under CoexistSpec
MaxChunk == 2      \* stereo samples an OUT buffer slot holds (AUDIOBUS_BUFFER_SAMPLES)
MaxPeak == 13      \* peak levels under MeterSpec are k / MaxPeak, k in 0..MaxPeak
MaxLevel == 1      \* peak levels under TrySpec are k / MaxLevel, k in 0..MaxLevel

\* ---- program constants (AudioBus.h) ----
AUDIOBUS_FLAG_ACTIVE == 1
AUDIOBUS_FLAG_PANIC_REQUEST == 2
AUDIOBUS_FLAG_PANIC_ACK == 4
AUDIOBUS_FLAG_AUDIO_ENABLED == 8

TAKEOVER_DIRECT == 0
TAKEOVER_PENDING == 1
TAKEOVER_ACTIVE == 2
TAKEOVER_RELEASING == 3

DriftAllowance == 3     \* "Allow up to 3 frames of drift"

AUDIOBUS_VERSION == 2   \* protocol version

\* ---- bit operations on the Flags word ----
\* A clear that leaves the bit as it is: not what Flags &= ~bit does.
ClearFlag_Keeping(f, b) == f

HasFlag(f, b) == (f \div b) % 2 = 1
SetFlag(f, b) == IF HasFlag(f, b) THEN f ELSE f + b
ClearFlag(f, b) == IF HasFlag(f, b) THEN f - b ELSE f

VARIABLES
    hdr,              \* the AudioBusHeader in shared memory (outlives the synth's mapping)
    inBuf,            \* the two stereo IN buffers: "zero" (as created), "partial" (being
                      \* written), "fresh" (the host's mix of the OUT frame published
                      \* last), "stale" (the mix of an earlier frame)
    published,        \* the region holds a published OUT frame (a swap since Create)
    audioReady,       \* the auto-reset event AudioReady is signalled
    processedReady,   \* the auto-reset event ProcessedReady is signalled
    mutexOwner,       \* owner of the named mutex: "none", "audio", "ctl", "hctl"
    g,                \* the synth's globals: g_AudioBusInitialized, g_AudioBusPtr (Mapped),
                      \* the two event handles (Events), g_AudioBusMutex (Mutex),
                      \* g_ChannelDSPActive
    apc, a,           \* audio thread: position and locals
    call,             \* audio thread: what the current / last ProcessAudioFrame call did
    cpc, c,           \* management thread: position and locals
    hpc, host,        \* host consumer thread: position and locals
    hcpc, hc,         \* host control thread: position and locals
    crashed,          \* the synth process took an access violation
    limit,            \* the run's bound on the 64-bit counters (fixed by Init)
    synth2,           \* a second synth process: its g_AudioBusInitialized and the
                      \* position of its audio thread
    outBuf,           \* the two OUT buffer slots: the number of stereo samples the
                      \* capture hooks copied in since the last process_frame call
                      \* (0: zeroed by Create, or copied in before an earlier call)
    meters            \* the meters: the synth's smoothing state (g_MasterPeakL,
                      \* g_ChannelPeaksL of one channel), the meter fields of the
                      \* header (hdr), and the loudest peak of the run's audio (grid)

vars == <<hdr, inBuf, published, audioReady, processedReady, mutexOwner, g,
          apc, a, call, cpc, c, hpc, host, hcpc, hc, crashed, limit, synth2,
          outBuf, meters>>

mem == <<hdr, inBuf, published>>
events == <<audioReady, processedReady>>
audioVars == <<apc, a, call>>
ctlVars == <<cpc, c>>
hostVars == <<hpc, host>>
hctlVars == <<hcpc, hc>>

\* A header whose magic bytes are left as memset made them: not what
\* AudioBus_Create writes.
FreshHeader_Unstamped ==
    [ Magic |-> <<"", "", "", "">>, Version |-> AUDIOBUS_VERSION,
      Flags |-> AUDIOBUS_FLAG_ACTIVE,
      TakeoverState |-> TAKEOVER_DIRECT,
      HeartbeatCounter |-> 0,
      OutWriteIndex |-> 0, OutReadIndex |-> 0,
      InWriteIndex |-> 0, InReadIndex |-> 0,
      OutFrameCounter |-> 0, InFrameCounter |-> 0,
      CurrentFrameSamples |-> 0 ]

\* Header as written by AudioBus_Create (memset 0, then the stamped fields).
FreshHeader ==
    [ Magic |-> <<"O", "M", "A", "B">>, Version |-> AUDIOBUS_VERSION,
      Flags |-> AUDIOBUS_FLAG_ACTIVE,
      TakeoverState |-> TAKEOVER_DIRECT,
      HeartbeatCounter |-> 0,
      OutWriteIndex |-> 0, OutReadIndex |-> 0,
      InWriteIndex |-> 0, InReadIndex |-> 0,
      OutFrameCounter |-> 0, InFrameCounter |-> 0,
      CurrentFrameSamples |-> 0 ]

\* The globals after a successful AudioBus_Create and AudioBus_SetupChannelDSPs.
\* Events says that both event handles are open; StaleEvent names the event global
\* ("audio", "processed") that holds the value of a handle already closed.
Connected ==
    [ Initialized |-> TRUE, Mapped |-> TRUE, Events |-> TRUE, Mutex |-> TRUE,
      ChannelDSPActive |-> TRUE, StaleEvent |-> "none" ]

\* A create that stamps a fresh header on a bus already initialised: not what
\* AudioBus_Create does.
CreateHeader_Always(gl, h) == FreshHeader

\* The header a successful AudioBus_Create leaves, for the globals gl and the
\* header h it finds: untouched when the bus is initialised already.
CreateHeader(gl, h) == IF gl.Initialized THEN h ELSE FreshHeader

\* The steps at which AudioBus_Create can fail: CreateMutexW, CreateFileMappingW,
\* MapViewOfFile, CreateEventW of AudioReady, of ProcessedReady, of both.
CreateFailures == {"mutex", "mapping", "view", "audio_event", "processed_event",
                   "both_events"}

\* The globals AudioBus_Create leaves when it fails at step, called with globals gl
\* of a bus that is not initialised: what it acquired is closed and the mutex, the
\* mapping and the pointers are NULL again; of the two events the one that was
\* made is closed by CloseHandle and its global keeps the handle's value.
CreateFailed(gl, step) ==
    [gl EXCEPT !.Initialized = FALSE, !.Mapped = FALSE, !.Events = FALSE,
               !.Mutex = FALSE,
               !.StaleEvent = CASE step = "audio_event" -> "processed"
                                [] step = "processed_event" -> "audio"
                                [] step = "both_events" -> "none"
                                [] OTHER -> gl.StaleEvent]

\* What an event global holds: NULL, an open handle, or the value of a closed one.
EventHandle(gl, which) ==
    IF gl.Events THEN "open"
    ELSE IF gl.StaleEvent = which THEN "stale" ELSE "null"

NoCall == [ start |-> -1, how |-> "none", swapped |-> FALSE, signalled |-> FALSE,
           out |-> -1 ]
\* The meter fields of the header as memset leaves them: the master peak, the peak
\* and the voice count of the modelled channels, the total of voices, the latency.
ZeroMeters ==
    [ MasterPeakL |-> 0, PeakLevelL |-> 0, VoiceCount |-> [ch \in {0, 1} |-> 0],
      TotalVoices |-> 0, OutputBufferLatencyUs |-> 0 ]

\* Silent meters of a run whose audio peaks at n.
MetersOf(n) ==
    [ grid |-> n, g_MasterPeakL |-> 0, g_ChannelPeaksL |-> 0, hdr |-> ZeroMeters ]

\* AUDIOBUS_LEVEL_DECAY, in hundredths.
DecayPercent == 92

\* old * AUDIOBUS_LEVEL_DECAY on the grid of peak levels (rounded down to the grid).
Decay(old) == (old * DecayPercent) \div 100

\* The smoothing of AudioBus_UpdateLevels and AudioBus_UpdateChannelLevels:
\* if (in > peak) peak = in; else peak *= AUDIOBUS_LEVEL_DECAY;
Smooth(in, old) == IF in > old THEN in ELSE Decay(old)

\* The larger of two levels.
Max(x, y) == IF x > y THEN x ELSE y

\* The voice counts and latencies the callers pass in.
VoiceCounts == {0, 1}
Latencies == {0, 1}

\* OUT buffers that hold nothing of the current frame.
OldOut == [i \in {0, 1} |-> 0]

\* The stereo samples the hook copies of a chunk of n: min(sampleCount,
\* AUDIOBUS_BUFFER_SAMPLES * AUDIOBUS_STEREO) floats.
CopyCount(n) == IF n < MaxChunk THEN n ELSE MaxChunk

\* The chunk lengths BASS hands to a capture hook, in stereo samples.
ChunkLengths == 1..(MaxChunk + 1)

NoLocals == [ state |-> -1, flags |-> -1, slot |-> -1, rslot |-> -1, got |-> "none",
              ret |-> FALSE ]

\* The state right after a successful AudioBus_Create, with the host attached and
\* waiting; speed and counts say what kind of host it is.
InitFor(speed, counts, n, peak) ==
    /\ meters = MetersOf(peak)
    /\ hdr = FreshHeader
    /\ inBuf = [i \in {0, 1} |-> "zero"]
    /\ published = FALSE
    /\ audioReady = FALSE
    /\ processedReady = FALSE
    /\ mutexOwner = "none"
    /\ g = Connected
    /\ apc = "idle"
    /\ a = NoLocals
    /\ call = NoCall
    /\ cpc = "idle"
    /\ c = [flags |-> -1]
    /\ hpc = "wait"
    /\ host = [speed |-> speed, counts |-> counts, slot |-> -1, wslot |-> -1,
               cur |-> FALSE]
    /\ hcpc = "idle"
    /\ hc = [flags |-> -1]
    /\ crashed = FALSE
    /\ limit = n
    /\ synth2 = [Initialized |-> FALSE, pc |-> "idle"]
    /\ outBuf = OldOut

\* The same with silent audio.
InitWith(speed, counts, n) == InitFor(speed, counts, n, 0)

\* ===================== pure decisions of the code =====================

\* A frame boundary that finishes a release but never activates a pending
\* takeover: not what AudioBus_ProcessFrameBoundary does.
FrameBoundaryState_NoActivation(state) ==
    IF state = TAKEOVER_RELEASING THEN TAKEOVER_DIRECT ELSE state

\* AudioBus_ProcessFrameBoundary: the state it stores for the state it read.
FrameBoundaryState(state) ==
    IF state = TAKEOVER_PENDING THEN TAKEOVER_ACTIVE
    ELSE IF state = TAKEOVER_RELEASING THEN TAKEOVER_DIRECT
    ELSE state

\* A request that makes the state PENDING whatever it was: not what
\* AudioBus_RequestTakeover does.
RequestTakeoverState_Always(state) == TAKEOVER_PENDING

\* AudioBus_RequestTakeover: DIRECT -> PENDING, anything else stays.
RequestTakeoverState(state) ==
    IF state = TAKEOVER_DIRECT THEN TAKEOVER_PENDING ELSE state

\* AudioBus_RequestTakeover: the Flags it leaves, for the state and Flags it found.
RequestTakeoverFlags(state, flags) ==
    IF state = TAKEOVER_DIRECT THEN SetFlag(flags, AUDIOBUS_FLAG_AUDIO_ENABLED) ELSE flags

\* A release that would itself finish a release under way (RELEASING -> DIRECT):
\* not what AudioBus_ReleaseTakeover does.
ReleaseTakeoverState_Finishing(state) ==
    IF state = TAKEOVER_ACTIVE \/ state = TAKEOVER_PENDING THEN TAKEOVER_RELEASING
    ELSE IF state = TAKEOVER_RELEASING THEN TAKEOVER_DIRECT
    ELSE state

\* AudioBus_ReleaseTakeover: ACTIVE or PENDING -> RELEASING, anything else stays.
ReleaseTakeoverState(state) ==
    IF state = TAKEOVER_ACTIVE \/ state = TAKEOVER_PENDING THEN TAKEOVER_RELEASING
    ELSE state

\* A liveness check that allows one frame of drift less (>= in place of >): not
\* what AudioBus_CheckPermafrostAlive does.
PermafrostAlive_OneFrameLess(state, outFrames, inFrames) ==
    \/ state # TAKEOVER_ACTIVE
    \/ ~(outFrames >= inFrames + DriftAllowance)

\* A liveness check that allows one frame of drift more: not what
\* AudioBus_CheckPermafrostAlive does.
PermafrostAlive_OneFrameMore(state, outFrames, inFrames) ==
    \/ state # TAKEOVER_ACTIVE
    \/ ~(outFrames > inFrames + DriftAllowance + 1)

\* AudioBus_CheckPermafrostAlive on the values it reads: FALSE when it releases.
PermafrostAlive(state, outFrames, inFrames) ==
    \/ state # TAKEOVER_ACTIVE
    \/ ~(outFrames > inFrames + DriftAllowance)

\* A test that also takes a pending takeover for an active one: not what
\* AudioBus_IsTakeoverActive does.
IsTakeoverActive_OrPending(state) ==
    state = TAKEOVER_ACTIVE \/ state = TAKEOVER_PENDING

\* AudioBus_IsTakeoverActive on the state it reads.
IsTakeoverActive(state) == state = TAKEOVER_ACTIVE

\* index & 1, a swap that does not flip: not what the code computes.
OtherIndex_Same(index) == index % 2

\* (index + 1) & 1: the swap of AudioBus_SwapOutBuffer and the opposite buffer of
\* AudioBus_ReadProcessedAudio.
OtherIndex(index) == (index + 1) % 2

\* A counter that wraps to 0 at limit: not what InterlockedIncrement64 does within
\* the runs considered.
Bump_Wrapping(n) == IF n < limit THEN n + 1 ELSE 0

\* InterlockedIncrement64 on a counter; the model's counters stop at limit.
Bump(n) == IF n < limit THEN n + 1 ELSE n

MutexFree == mutexOwner = "none"
\* The holder will never release: the host stopped inside a critical section.
MutexStuck == mutexOwner = "hctl" /\ host.speed = "stopped"

\* A new OUT frame is published: the mixes the host made of earlier frames are stale.
Superseded(buf) == [i \in {0, 1} |-> IF buf[i] = "fresh" THEN "stale" ELSE buf[i]]

\* ===================== audio thread =====================

\* The return of AudioBus_ProcessAudioFrame to the output stage, which on TRUE
\* calls AudioBus_ReadProcessedAudio and on FALSE plays its own mix.
Return(value, how) ==
    /\ a' = [a EXCEPT !.ret = value]
    /\ call' = [call EXCEPT !.how = how]
    /\ apc' = IF value THEN "read_in" ELSE "returned"

\* AudioBus_ProcessAudioFrame is entered (its check and that of
\* AudioBus_ProcessFrameBoundary) and ProcessFrameBoundary reads TakeoverState.
EnterFrame ==
    /\ ~crashed /\ apc = "idle"
    /\ IF ~g.Initialized \/ ~g.Mapped
       THEN /\ a' = NoLocals
            /\ call' = [NoCall EXCEPT !.how = "uninit"]
            /\ apc' = "returned"
       ELSE /\ a' = [NoLocals EXCEPT !.state = hdr.TakeoverState]
            /\ call' = [NoCall EXCEPT !.start = hdr.TakeoverState, !.how = "running",
                                      !.out = hdr.OutFrameCounter]
            /\ apc' = IF FrameBoundaryState(hdr.TakeoverState) # hdr.TakeoverState
                      THEN "pfb_state" ELSE "heartbeat"
    /\ UNCHANGED <<mem, events, mutexOwner, g, ctlVars, hostVars, hctlVars, crashed, limit, synth2, outBuf, meters>>

\* A frame of a run bounded to limit frames.
ProcessAudioFrame_Enter ==
    /\ hdr.HeartbeatCounter < limit
    /\ EnterFrame

\* A frame of a run of any length (the counters stop at limit).
ProcessAudioFrame_EnterAgain ==
    /\ EnterFrame

\* A frame of the end-to-end scenarios, which call process_frame once the takeover
\* has been requested.
ProcessAudioFrame_EnterTakeover ==
    /\ hdr.HeartbeatCounter < limit
    /\ hdr.TakeoverState # TAKEOVER_DIRECT
    /\ EnterFrame

\* ProcessFrameBoundary: the store to TakeoverState (no mutex).
ProcessFrameBoundary_Store ==
    /\ ~crashed /\ apc = "pfb_state" /\ g.Mapped
    /\ hdr' = [hdr EXCEPT !.TakeoverState = FrameBoundaryState(a.state)]
    /\ apc' = IF a.state = TAKEOVER_RELEASING THEN "pfb_flags" ELSE "heartbeat"
    /\ a' = [a EXCEPT !.state = -1]
    /\ UNCHANGED <<inBuf, published, events, mutexOwner, g, call, ctlVars, hostVars,
                   hctlVars, crashed, limit, synth2, outBuf, meters>>

\* ProcessFrameBoundary: Flags &= ~AUDIO_ENABLED is a load ...
ProcessFrameBoundary_LoadFlags ==
    /\ ~crashed /\ apc = "pfb_flags" /\ g.Mapped
    /\ a' = [a EXCEPT !.flags = hdr.Flags]
    /\ apc' = "pfb_flags_w"
    /\ UNCHANGED <<mem, events, mutexOwner, g, call, ctlVars, hostVars, hctlVars, crashed, limit, synth2, outBuf, meters>>

\* ... and a store (no mutex).
ProcessFrameBoundary_StoreFlags ==
    /\ ~crashed /\ apc = "pfb_flags_w" /\ g.Mapped
    /\ hdr' = [hdr EXCEPT !.Flags = ClearFlag(a.flags, AUDIOBUS_FLAG_AUDIO_ENABLED)]
    /\ apc' = "heartbeat"
    /\ a' = [a EXCEPT !.flags = -1]
    /\ UNCHANGED <<inBuf, published, events, mutexOwner, g, call, ctlVars, hostVars,
                   hctlVars, crashed, limit, synth2, outBuf, meters>>

\* AudioBus_IncrementHeartbeat (skipped when the pointer is NULL), then
\* if (!AudioBus_IsTakeoverActive()) return FALSE;
IncrementHeartbeat_IsTakeoverActive ==
    /\ ~crashed /\ apc = "heartbeat"
    /\ hdr' = IF g.Mapped
              THEN [hdr EXCEPT !.HeartbeatCounter = Bump(hdr.HeartbeatCounter)]
              ELSE hdr
    /\ IF g.Initialized /\ g.Mapped /\ IsTakeoverActive(hdr.TakeoverState)
       THEN /\ apc' = "alive"
            /\ UNCHANGED <<a, call>>
       ELSE Return(FALSE, "direct")
    /\ UNCHANGED <<inBuf, published, events, mutexOwner, g, ctlVars, hostVars, hctlVars,
                   crashed, limit, synth2, outBuf, meters>>

\* if (!AudioBus_CheckPermafrostAlive()) return FALSE;  -- the drift check; on drift
\* it calls AudioBus_ReleaseTakeover and the frame returns FALSE.
CheckPermafrostAlive ==
    /\ ~crashed /\ apc = "alive"
    /\ IF ~g.Mapped \/ PermafrostAlive(hdr.TakeoverState, hdr.OutFrameCounter,
                                       hdr.InFrameCounter)
       THEN /\ apc' = "swap"
            /\ call' = call
       ELSE /\ apc' = "release"
            /\ call' = [call EXCEPT !.how = "drift"]
    /\ UNCHANGED <<mem, events, mutexOwner, g, a, ctlVars, hostVars, hctlVars, crashed, limit, synth2, outBuf, meters>>

\* AudioBus_SwapOutBuffer: InterlockedExchange of OutWriteIndex (nothing when the
\* pointer is NULL) ...
SwapOutBuffer_Index ==
    /\ ~crashed /\ apc = "swap"
    /\ IF g.Mapped
       THEN /\ hdr' = [hdr EXCEPT !.OutWriteIndex = OtherIndex(hdr.OutWriteIndex)]
            /\ call' = [call EXCEPT !.swapped = TRUE]
            /\ published' = TRUE
            /\ inBuf' = Superseded(inBuf)
            /\ host' = [host EXCEPT !.cur = FALSE]
            /\ apc' = "swap_count"
       ELSE /\ UNCHANGED <<hdr, call, published, inBuf, host>>
            /\ apc' = "signal"
    /\ UNCHANGED <<events, mutexOwner, g, a, ctlVars, hpc, hctlVars, crashed, limit, synth2, outBuf, meters>>

\* ... then InterlockedIncrement64 of OutFrameCounter.
SwapOutBuffer_Count ==
    /\ ~crashed /\ apc = "swap_count" /\ g.Mapped
    /\ hdr' = [hdr EXCEPT !.OutFrameCounter = Bump(hdr.OutFrameCounter)]
    /\ apc' = "signal"
    /\ UNCHANGED <<inBuf, published, events, mutexOwner, g, a, call, ctlVars, hostVars,
                   hctlVars, crashed, limit, synth2, outBuf, meters>>

\* AudioBus_SignalAudioReady: SetEvent when the handle is open.
SignalAudioReady ==
    /\ ~crashed /\ apc = "signal"
    /\ audioReady' = (g.Events \/ audioReady)
    /\ call' = [call EXCEPT !.signalled = g.Events]
    /\ apc' = "wait"
    /\ UNCHANGED <<mem, processedReady, mutexOwner, g, a, ctlVars, hostVars, hctlVars,
                   crashed, limit, synth2, outBuf, meters>>

\* The host will still answer within the frame timeout.
AnswerOnItsWay == host.speed = "prompt" /\ (audioReady \/ hpc # "wait")

\* AudioBus_WaitForProcessedAudio(50 ms): the auto-reset event is consumed ...
WaitForProcessedAudio_Signalled ==
    /\ ~crashed /\ apc = "wait"
    /\ g.Events /\ processedReady
    /\ processedReady' = FALSE
    /\ Return(TRUE, "ok")
    /\ UNCHANGED <<mem, audioReady, mutexOwner, g, ctlVars, hostVars, hctlVars, crashed, limit, synth2, outBuf, meters>>

\* ... or the wait times out (or the handle is gone) and the frame calls
\* AudioBus_ReleaseTakeover.
WaitForProcessedAudio_Timeout ==
    /\ ~crashed /\ apc = "wait"
    /\ ~g.Events \/ (~processedReady /\ ~AnswerOnItsWay)
    /\ call' = [call EXCEPT !.how = "timeout"]
    /\ apc' = "release"
    /\ UNCHANGED <<mem, events, mutexOwner, g, a, ctlVars, hostVars, hctlVars, crashed, limit, synth2, outBuf, meters>>

\* AudioBus_ReleaseTakeover on the audio thread: its check and the 100 ms wait on
\* the mutex.  Not initialised, or the wait times out: nothing is done and the
\* frame returns FALSE.
ReleaseTakeover_Wait ==
    /\ ~crashed /\ apc = "release"
    /\ IF g.Initialized /\ g.Mapped /\ g.Mutex
       THEN \/ /\ MutexFree
               /\ mutexOwner' = "audio"
               /\ apc' = "release_body"
               /\ UNCHANGED <<a, call>>
            \/ /\ MutexStuck
               /\ mutexOwner' = mutexOwner
               /\ Return(FALSE, call.how)
       ELSE /\ mutexOwner' = mutexOwner
            /\ Return(FALSE, call.how)
    /\ UNCHANGED <<mem, events, g, ctlVars, hostVars, hctlVars, crashed, limit, synth2, outBuf, meters>>

\* ReleaseTakeover under the mutex: the state change and ReleaseMutex.
ReleaseTakeover_Body ==
    /\ ~crashed /\ apc = "release_body" /\ g.Mapped
    /\ hdr' = [hdr EXCEPT !.TakeoverState = ReleaseTakeoverState(hdr.TakeoverState)]
    /\ mutexOwner' = "none"
    /\ Return(FALSE, call.how)
    /\ UNCHANGED <<inBuf, published, events, g, ctlVars, hostVars, hctlVars, crashed, limit, synth2, outBuf, meters>>

\* AudioBus_ReadProcessedAudio: the read of InWriteIndex and the start of the memcpy
\* from the opposite IN buffer.
ReadProcessedAudio_Begin ==
    /\ ~crashed /\ apc = "read_in"
    /\ IF g.Initialized /\ g.Mapped
       THEN /\ a' = [a EXCEPT !.rslot = OtherIndex(hdr.InWriteIndex)]
            /\ apc' = "read_copy"
       ELSE /\ a' = a
            /\ apc' = "returned"
    /\ UNCHANGED <<mem, events, mutexOwner, g, call, ctlVars, hostVars, hctlVars, crashed, limit, synth2, outBuf, meters>>

\* The memcpy completes: what the synth plays for this frame.
ReadProcessedAudio_End ==
    /\ ~crashed /\ apc = "read_copy" /\ g.Mapped
    /\ a' = [a EXCEPT !.got = inBuf[a.rslot]]
    /\ apc' = "returned"
    /\ UNCHANGED <<mem, events, mutexOwner, g, call, ctlVars, hostVars, hctlVars, crashed, limit, synth2, outBuf, meters>>

\* The output stage is done with the frame.
ProcessAudioFrame_Leave ==
    /\ ~crashed /\ apc = "returned"
    /\ a' = NoLocals
    /\ call' = NoCall
    /\ apc' = "idle"
    /\ outBuf' = OldOut
    /\ UNCHANGED <<mem, events, mutexOwner, g, ctlVars, hostVars, hctlVars, crashed, limit, synth2,
                   meters>>

\* AudioBus_ChannelDSPCallback (the capture hook of a channel, run on the audio
\* thread between two frames): it goes on only when the state is ACTIVE; then
\* AudioBus_UpdateChannelLevels tries the mutex with a zero timeout and skips the
\* meter update when it is held; then the memcpy into the OUT buffer that
\* OutWriteIndex & 1 designates starts.
ChannelDSPCallback_Enter ==
    /\ ~crashed /\ apc = "idle"
    /\ g.ChannelDSPActive /\ g.Initialized /\ g.Mapped
    /\ hdr.TakeoverState = TAKEOVER_ACTIVE
    /\ \E peakL \in 0..meters.grid :
           meters' = [meters EXCEPT !.g_ChannelPeaksL = Smooth(peakL, @)]
    /\ IF g.Mutex /\ MutexFree
       THEN /\ mutexOwner' = "audio"
            /\ apc' = "hook_levels"
            /\ a' = a
       ELSE /\ mutexOwner' = mutexOwner
            /\ apc' = "hook_copy"
            /\ a' = [a EXCEPT !.slot = hdr.OutWriteIndex % 2]
    /\ UNCHANGED <<mem, events, g, call, ctlVars, hostVars, hctlVars, crashed, limit, synth2, outBuf>>

\* The channel's smoothed peaks are stored, the mutex is released, the memcpy starts.
ChannelDSPCallback_StoreLevels ==
    /\ ~crashed /\ apc = "hook_levels" /\ g.Mapped
    /\ meters' = [meters EXCEPT !.hdr.PeakLevelL = meters.g_ChannelPeaksL]
    /\ mutexOwner' = "none"
    /\ apc' = "hook_copy"
    /\ a' = [a EXCEPT !.slot = hdr.OutWriteIndex % 2]
    /\ UNCHANGED <<mem, events, g, call, ctlVars, hostVars, hctlVars, crashed, limit, synth2, outBuf>>

\* The memcpy into the OUT buffer, of a chunk of some length, completes.
ChannelDSPCallback_EndCopy ==
    /\ ~crashed /\ apc = "hook_copy" /\ g.Mapped
    /\ \E n \in ChunkLengths : outBuf' = [outBuf EXCEPT ![a.slot] = CopyCount(n)]
    /\ a' = [a EXCEPT !.slot = -1]
    /\ apc' = "idle"
    /\ UNCHANGED <<mem, events, mutexOwner, g, call, ctlVars, hostVars, hctlVars, crashed, limit, synth2,
                   meters>>

\* What AudioBus_WaitForProcessedAudio can return for the handle it finds: FALSE for
\* NULL; for an open handle whether the event is signalled within the timeout; for
\* the value of a closed handle whatever WaitForSingleObject makes of the object, if
\* any, that the value names by now.
WaitForProcessedAudioResults(handle, signalled) ==
    CASE handle = "null" -> {FALSE}
      [] handle = "open" -> {signalled}
      [] OTHER -> BOOLEAN

\* AudioBus_SignalAudioReady called on a bus that is not initialised (outside a
\* frame): nothing for a NULL handle; SetEvent on whatever the global holds
\* otherwise.
SignalAudioReady_Alone ==
    /\ ~crashed /\ apc = "idle"
    /\ ~g.Initialized
    /\ a' = NoLocals
    /\ call' = [NoCall EXCEPT !.how = IF EventHandle(g, "audio") = "null"
                                      THEN "uninit" ELSE "stale_signal"]
    /\ apc' = "returned"
    /\ UNCHANGED <<mem, events, mutexOwner, g, ctlVars, hostVars, hctlVars, crashed, limit, synth2, outBuf, meters>>

\* AudioBus_WaitForProcessedAudio called on a bus that is not initialised: FALSE
\* for a NULL handle; WaitForSingleObject on whatever the global holds otherwise.
WaitForProcessedAudio_Alone ==
    /\ ~crashed /\ apc = "idle"
    /\ ~g.Initialized
    /\ \E r \in WaitForProcessedAudioResults(EventHandle(g, "processed"), processedReady) :
           a' = [NoLocals EXCEPT !.ret = r]
    /\ call' = [NoCall EXCEPT !.how = IF EventHandle(g, "processed") = "null"
                                      THEN "uninit" ELSE "stale_wait"]
    /\ apc' = "returned"
    /\ UNCHANGED <<mem, events, mutexOwner, g, ctlVars, hostVars, hctlVars, crashed, limit, synth2, outBuf, meters>>

\* Positions at which the audio thread dereferences the header without a new check.
AudioDerefs == {"pfb_state", "pfb_flags", "pfb_flags_w", "swap_count", "release_body",
                "read_copy", "hook_levels", "hook_copy"}

\* ===================== management thread =====================

\* AudioBus_RequestTakeover: its check, the 100 ms wait on the mutex (when it times
\* out nothing is done), and under the mutex: a state other than DIRECT is left
\* alone; DIRECT becomes PENDING and Flags is loaded for |= AUDIO_ENABLED.
RequestTakeover_Begin ==
    /\ ~crashed /\ cpc = "idle"
    /\ g.Initialized /\ g.Mapped /\ g.Mutex
    /\ MutexFree
    /\ hdr' = [hdr EXCEPT !.TakeoverState = RequestTakeoverState(hdr.TakeoverState)]
    /\ IF hdr.TakeoverState = TAKEOVER_DIRECT
       THEN /\ c' = [c EXCEPT !.flags = hdr.Flags]
            /\ cpc' = "rt_flags"
            /\ mutexOwner' = "ctl"
       ELSE UNCHANGED <<c, cpc, mutexOwner>>
    /\ UNCHANGED <<inBuf, published, events, g, audioVars, hostVars, hctlVars, crashed, limit, synth2, outBuf, meters>>

\* The store of Flags | AUDIO_ENABLED and ReleaseMutex.
RequestTakeover_StoreFlags ==
    /\ ~crashed /\ cpc = "rt_flags" /\ g.Mapped
    /\ hdr' = [hdr EXCEPT !.Flags = RequestTakeoverFlags(TAKEOVER_DIRECT, c.flags)]
    /\ mutexOwner' = "none"
    /\ c' = [c EXCEPT !.flags = -1]
    /\ cpc' = "idle"
    /\ UNCHANGED <<inBuf, published, events, g, audioVars, hostVars, hctlVars, crashed, limit, synth2, outBuf, meters>>

\* AudioBus_ReleaseTakeover called from outside the audio thread: the wait, the
\* state change under the mutex, ReleaseMutex.
CtlReleaseTakeover ==
    /\ ~crashed /\ cpc = "idle"
    /\ g.Initialized /\ g.Mapped /\ g.Mutex
    /\ MutexFree
    /\ hdr' = [hdr EXCEPT !.TakeoverState = ReleaseTakeoverState(hdr.TakeoverState)]
    /\ UNCHANGED <<inBuf, published, events, mutexOwner, g, audioVars, ctlVars, hostVars,
                   hctlVars, crashed, limit, synth2, outBuf, meters>>

\* PollPermafrostMixerCommands, method 2: AudioBus_IsConnected() &&
\* AudioBus_CheckPanicRequest() (a zero-timeout try of the mutex around the read of
\* Flags) found the request; ResetSynth(FALSE, FALSE) is called.
PollPermafrostMixerCommands ==
    /\ ~crashed /\ cpc = "idle"
    /\ g.Initialized /\ g.Mapped /\ g.Mutex
    /\ MutexFree
    /\ HasFlag(hdr.Flags, AUDIOBUS_FLAG_PANIC_REQUEST)
    /\ cpc' = "ack_wait"
    /\ UNCHANGED <<mem, events, mutexOwner, g, audioVars, c, hostVars, hctlVars, crashed, limit, synth2, outBuf, meters>>

\* AudioBus_AcknowledgePanic: its check, the INFINITE wait on the mutex and the load
\* of Flags for &= ~PANIC_REQUEST ...
AcknowledgePanic_Load ==
    /\ ~crashed /\ cpc = "ack_wait"
    /\ IF g.Initialized /\ g.Mapped
       THEN /\ g.Mutex /\ MutexFree
            /\ mutexOwner' = "ctl"
            /\ c' = [c EXCEPT !.flags = hdr.Flags]
            /\ cpc' = "ack_req"
       ELSE /\ UNCHANGED <<mutexOwner, c>>
            /\ cpc' = "idle"
    /\ UNCHANGED <<mem, events, g, audioVars, hostVars, hctlVars, crashed, limit, synth2, outBuf, meters>>

\* ... its store, and the load for |= PANIC_ACK ...
AcknowledgePanic_StoreRequest ==
    /\ ~crashed /\ cpc = "ack_req" /\ g.Mapped
    /\ hdr' = [hdr EXCEPT !.Flags = ClearFlag(c.flags, AUDIOBUS_FLAG_PANIC_REQUEST)]
    /\ c' = [c EXCEPT !.flags = ClearFlag(c.flags, AUDIOBUS_FLAG_PANIC_REQUEST)]
    /\ cpc' = "ack_ack"
    /\ UNCHANGED <<inBuf, published, events, mutexOwner, g, audioVars, hostVars, hctlVars,
                   crashed, limit, synth2, outBuf, meters>>

\* ... its store, and ReleaseMutex.
AcknowledgePanic_StoreAck ==
    /\ ~crashed /\ cpc = "ack_ack" /\ g.Mapped
    /\ hdr' = [hdr EXCEPT !.Flags = SetFlag(c.flags, AUDIOBUS_FLAG_PANIC_ACK)]
    /\ mutexOwner' = "none"
    /\ c' = [c EXCEPT !.flags = -1]
    /\ cpc' = "idle"
    /\ UNCHANGED <<inBuf, published, events, g, audioVars, hostVars, hctlVars, crashed, limit, synth2, outBuf, meters>>

\* AudioBus_Create (with AudioBus_SetupChannelDSPs after it): nothing when the bus
\* is initialised; else the handles are made, the region is mapped and, under the
\* mutex (INFINITE wait), zeroed by memset and the header initialised. The region
\* and the named events are those the host still has open.  Or one of the handles
\* cannot be made, and the call fails before it touches the region.
AudioBus_Create ==
    /\ ~crashed /\ cpc = "idle"
    /\ IF g.Initialized
       THEN /\ hdr' = CreateHeader(g, hdr)
            /\ UNCHANGED <<inBuf, outBuf, meters, published, g>>
       ELSE \/ /\ MutexFree
               /\ hdr' = CreateHeader(g, hdr)
               /\ inBuf' = [i \in {0, 1} |-> "zero"]
               /\ outBuf' = OldOut
               /\ meters' = [meters EXCEPT !.hdr = ZeroMeters]
               /\ published' = FALSE
               /\ g' = Connected
            \/ /\ \E step \in CreateFailures : g' = CreateFailed(g, step)
               /\ UNCHANGED <<hdr, inBuf, outBuf, meters, published>>
    /\ UNCHANGED <<events, mutexOwner, audioVars, ctlVars, hostVars, hctlVars, crashed, limit, synth2>>

\* AudioBus_Destroy: RemoveChannelDSPs, then WaitForSingleObject(mutex, 100) whose
\* result is not looked at.
Destroy_Wait ==
    /\ ~crashed /\ cpc = "idle"
    /\ g.Initialized
    /\ MutexFree \/ MutexStuck
    /\ g' = [g EXCEPT !.ChannelDSPActive = FALSE]
    /\ mutexOwner' = IF MutexFree THEN "ctl" ELSE mutexOwner
    /\ cpc' = "d_flags"
    /\ UNCHANGED <<mem, events, audioVars, c, hostVars, hctlVars, crashed, limit, synth2, outBuf, meters>>

\* g_AudioBusPtr->Flags = 0;
Destroy_Flags ==
    /\ ~crashed /\ cpc = "d_flags"
    /\ hdr' = [hdr EXCEPT !.Flags = 0]
    /\ cpc' = "d_state"
    /\ UNCHANGED <<inBuf, published, events, mutexOwner, g, audioVars, c, hostVars,
                   hctlVars, crashed, limit, synth2, outBuf, meters>>

\* g_AudioBusPtr->TakeoverState = TAKEOVER_DIRECT; ReleaseMutex.
Destroy_State ==
    /\ ~crashed /\ cpc = "d_state"
    /\ hdr' = [hdr EXCEPT !.TakeoverState = TAKEOVER_DIRECT]
    /\ mutexOwner' = IF mutexOwner = "ctl" THEN "none" ELSE mutexOwner
    /\ cpc' = "d_events"
    /\ UNCHANGED <<inBuf, published, events, g, audioVars, c, hostVars, hctlVars, crashed, limit, synth2, outBuf, meters>>

\* Both event handles are closed and set to NULL.
Destroy_Events ==
    /\ ~crashed /\ cpc = "d_events"
    /\ g' = [g EXCEPT !.Events = FALSE]
    /\ cpc' = "d_unmap"
    /\ UNCHANGED <<mem, events, mutexOwner, audioVars, c, hostVars, hctlVars, crashed, limit, synth2, outBuf, meters>>

\* UnmapViewOfFile, the pointers set to NULL, the mapping and the mutex closed,
\* g_AudioBusInitialized = FALSE.
Destroy_Unmap ==
    /\ ~crashed /\ cpc = "d_unmap"
    /\ g' = [g EXCEPT !.Mapped = FALSE, !.Mutex = FALSE, !.Initialized = FALSE]
    /\ cpc' = "idle"
    /\ UNCHANGED <<mem, events, mutexOwner, audioVars, c, hostVars, hctlVars, crashed, limit, synth2, outBuf, meters>>

\* Positions at which the management thread dereferences the header unchecked.
CtlDerefs == {"rt_flags", "ack_req", "ack_ack"}

\* A thread of the synth touches the region after Destroy unmapped it.
AccessViolation ==
    /\ ~crashed /\ ~g.Mapped
    /\ apc \in AudioDerefs \/ cpc \in CtlDerefs
    /\ crashed' = TRUE
    /\ UNCHANGED <<mem, events, mutexOwner, g, audioVars, ctlVars, hostVars, hctlVars,
                   limit, synth2, outBuf, meters>>

\* ===================== host (Permafrost) =====================

HostRuns == ~crashed /\ host.speed # "stopped"

\* The consumer thread is woken by AudioReady (auto-reset): it observes
\* OutWriteIndex and starts reading the OUT buffers of the opposite index.
Host_Wake ==
    /\ HostRuns /\ hpc = "wait"
    /\ audioReady
    /\ audioReady' = FALSE
    /\ host' = [host EXCEPT !.slot = OtherIndex(hdr.OutWriteIndex), !.cur = published]
    /\ hpc' = "read"
    /\ UNCHANGED <<mem, processedReady, mutexOwner, g, audioVars, ctlVars, hctlVars,
                   crashed, limit, synth2, outBuf, meters>>

\* It has read the OUT buffers and starts writing the mix into the IN buffer that
\* InWriteIndex designates.
Host_Process ==
    /\ HostRuns /\ hpc = "read"
    /\ host' = [host EXCEPT !.slot = -1, !.wslot = hdr.InWriteIndex]
    /\ inBuf' = [inBuf EXCEPT ![hdr.InWriteIndex] = "partial"]
    /\ hpc' = "write"
    /\ UNCHANGED <<hdr, published, events, mutexOwner, g, audioVars, ctlVars, hctlVars,
                   crashed, limit, synth2, outBuf, meters>>

\* The IN buffer is complete; InWriteIndex and InFrameCounter are advanced (the
\* counter not by a host whose counter is frozen) and ProcessedReady is set.
Host_Finish ==
    /\ HostRuns /\ hpc = "write"
    /\ inBuf' = [inBuf EXCEPT ![host.wslot] = IF host.cur THEN "fresh" ELSE "stale"]
    /\ hdr' = [hdr EXCEPT !.InWriteIndex = OtherIndex(hdr.InWriteIndex),
                          !.InFrameCounter = IF host.counts
                                             THEN Bump(hdr.InFrameCounter)
                                             ELSE hdr.InFrameCounter]
    /\ host' = [host EXCEPT !.wslot = -1, !.cur = FALSE]
    /\ processedReady' = TRUE
    /\ hpc' = "wait"
    /\ UNCHANGED <<published, audioReady, mutexOwner, g, audioVars, ctlVars, hctlVars,
                   crashed, limit, synth2, outBuf, meters>>

\* The host stops for good (it hangs), wherever its threads are.
Host_Stop ==
    /\ HostRuns
    /\ host' = [host EXCEPT !.speed = "stopped"]
    /\ UNCHANGED <<mem, events, mutexOwner, g, audioVars, ctlVars, hpc, hctlVars, crashed, limit, synth2, outBuf, meters>>

\* request_panic by the host (the code of AudioBus_RequestPanic): the INFINITE wait
\* on the mutex and the load of Flags for |= PANIC_REQUEST ...
RequestPanic_Load ==
    /\ HostRuns /\ hcpc = "idle"
    /\ MutexFree
    /\ mutexOwner' = "hctl"
    /\ hc' = [hc EXCEPT !.flags = hdr.Flags]
    /\ hcpc' = "rp_req"
    /\ UNCHANGED <<mem, events, g, audioVars, ctlVars, hostVars, crashed, limit, synth2, outBuf, meters>>

\* ... its store, and the load for &= ~PANIC_ACK ...
RequestPanic_StoreRequest ==
    /\ HostRuns /\ hcpc = "rp_req"
    /\ hdr' = [hdr EXCEPT !.Flags = SetFlag(hc.flags, AUDIOBUS_FLAG_PANIC_REQUEST)]
    /\ hc' = [hc EXCEPT !.flags = SetFlag(hc.flags, AUDIOBUS_FLAG_PANIC_REQUEST)]
    /\ hcpc' = "rp_ack"
    /\ UNCHANGED <<inBuf, published, events, mutexOwner, g, audioVars, ctlVars, hostVars,
                   crashed, limit, synth2, outBuf, meters>>

\* ... its store, and ReleaseMutex.
RequestPanic_StoreAck ==
    /\ HostRuns /\ hcpc = "rp_ack"
    /\ hdr' = [hdr EXCEPT !.Flags = ClearFlag(hc.flags, AUDIOBUS_FLAG_PANIC_ACK)]
    /\ mutexOwner' = "none"
    /\ hc' = [hc EXCEPT !.flags = -1]
    /\ hcpc' = "idle"
    /\ UNCHANGED <<inBuf, published, events, g, audioVars, ctlVars, hostVars, crashed, limit, synth2, outBuf, meters>>

\* clear_panic_ack by the host (the code of AudioBus_ClearPanicAck), called once it
\* has seen the acknowledgement: the zero-timeout try of the mutex and the load of
\* Flags ...
ClearPanicAck_Load ==
    /\ HostRuns /\ hcpc = "idle"
    /\ MutexFree
    /\ HasFlag(hdr.Flags, AUDIOBUS_FLAG_PANIC_ACK)
    /\ mutexOwner' = "hctl"
    /\ hc' = [hc EXCEPT !.flags = hdr.Flags]
    /\ hcpc' = "ca_store"
    /\ UNCHANGED <<mem, events, g, audioVars, ctlVars, hostVars, crashed, limit, synth2, outBuf, meters>>

\* ... the store of Flags & ~PANIC_ACK and ReleaseMutex.
ClearPanicAck_Store ==
    /\ HostRuns /\ hcpc = "ca_store"
    /\ hdr' = [hdr EXCEPT !.Flags = ClearFlag(hc.flags, AUDIOBUS_FLAG_PANIC_ACK)]
    /\ mutexOwner' = "none"
    /\ hc' = [hc EXCEPT !.flags = -1]
    /\ hcpc' = "idle"
    /\ UNCHANGED <<inBuf, published, events, g, audioVars, ctlVars, hostVars, crashed, limit, synth2, outBuf, meters>>

\* ===================== a second synth process =====================

\* AudioBus_Create in a second synth process: CreateMutexW and CreateFileMappingW
\* take the names AUDIOBUS_MUTEX_NAME and AUDIOBUS_SHARED_MEM_NAME, which carry no
\* process identifier, and so open the mutex and the region of the first; the two
\* events it makes carry its own identifier.  Under the mutex it zeroes the region
\* and initialises the header.
Synth2_Create ==
    /\ ~synth2.Initialized /\ synth2.pc = "idle"
    /\ MutexFree
    /\ hdr' = CreateHeader(synth2, hdr)
    /\ inBuf' = [i \in {0, 1} |-> "zero"]
    /\ outBuf' = OldOut
    /\ meters' = [meters EXCEPT !.hdr = ZeroMeters]
    /\ published' = FALSE
    /\ synth2' = [synth2 EXCEPT !.Initialized = TRUE]
    /\ UNCHANGED <<events, mutexOwner, g, audioVars, ctlVars, hostVars, hctlVars, crashed,
                   limit>>

\* AudioBus_ProcessAudioFrame in the second process, up to its wait: the frame
\* boundary and the heartbeat on the header it has mapped and, when it finds the
\* takeover active and the host alive, the swap; it signals and awaits events of
\* its own, which no host answers.
Synth2_ProcessAudioFrame ==
    /\ synth2.Initialized /\ synth2.pc = "idle"
    /\ hdr.HeartbeatCounter < limit
    /\ LET state == FrameBoundaryState(hdr.TakeoverState)
           flags == IF hdr.TakeoverState = TAKEOVER_RELEASING
                    THEN ClearFlag(hdr.Flags, AUDIOBUS_FLAG_AUDIO_ENABLED)
                    ELSE hdr.Flags
           swaps == /\ IsTakeoverActive(state)
                    /\ PermafrostAlive(state, hdr.OutFrameCounter, hdr.InFrameCounter)
       IN  /\ hdr' = [hdr EXCEPT
                        !.TakeoverState = state,
                        !.Flags = flags,
                        !.HeartbeatCounter = Bump(hdr.HeartbeatCounter),
                        !.OutWriteIndex = IF swaps THEN OtherIndex(hdr.OutWriteIndex)
                                          ELSE hdr.OutWriteIndex,
                        !.OutFrameCounter = IF swaps THEN Bump(hdr.OutFrameCounter)
                                            ELSE hdr.OutFrameCounter]
           /\ synth2' = [synth2 EXCEPT !.pc = IF IsTakeoverActive(state)
                                              THEN "release" ELSE "idle"]
    /\ UNCHANGED <<inBuf, published, events, mutexOwner, g, audioVars, ctlVars, hostVars,
                   hctlVars, crashed, limit, outBuf, meters>>

\* The drift check or the timeout of its wait makes it call
\* AudioBus_ReleaseTakeover: the 100 ms wait on the mutex and the state change.
Synth2_ReleaseTakeover ==
    /\ synth2.pc = "release"
    /\ MutexFree \/ MutexStuck
    /\ hdr' = IF MutexFree
              THEN [hdr EXCEPT !.TakeoverState = ReleaseTakeoverState(hdr.TakeoverState)]
              ELSE hdr
    /\ synth2' = [synth2 EXCEPT !.pc = "idle"]
    /\ UNCHANGED <<inBuf, published, events, mutexOwner, g, audioVars, ctlVars, hostVars,
                   hctlVars, crashed, limit, outBuf, meters>>

\* AudioBus_Destroy in the second process: Flags = 0 and TakeoverState = DIRECT in
\* the header after the 100 ms wait on the mutex, then its own handles are closed
\* and the process exits.
Synth2_Destroy ==
    /\ synth2.Initialized /\ synth2.pc = "idle"
    /\ MutexFree \/ MutexStuck
    /\ hdr' = [hdr EXCEPT !.Flags = 0, !.TakeoverState = TAKEOVER_DIRECT]
    /\ synth2' = [synth2 EXCEPT !.Initialized = FALSE, !.pc = "exited"]
    /\ UNCHANGED <<inBuf, published, events, mutexOwner, g, audioVars, ctlVars, hostVars,
                   hctlVars, crashed, limit, outBuf, meters>>

Synth2Step ==
    \/ Synth2_Create
    \/ Synth2_ProcessAudioFrame
    \/ Synth2_ReleaseTakeover
    \/ Synth2_Destroy

\* ===================== the system =====================

FrameStep ==
    \/ ProcessFrameBoundary_Store
    \/ ProcessFrameBoundary_LoadFlags
    \/ ProcessFrameBoundary_StoreFlags
    \/ IncrementHeartbeat_IsTakeoverActive
    \/ CheckPermafrostAlive
    \/ SwapOutBuffer_Index
    \/ SwapOutBuffer_Count
    \/ SignalAudioReady
    \/ WaitForProcessedAudio_Signalled
    \/ WaitForProcessedAudio_Timeout
    \/ ReleaseTakeover_Wait
    \/ ReleaseTakeover_Body
    \/ ReadProcessedAudio_Begin
    \/ ReadProcessedAudio_End
    \/ ProcessAudioFrame_Leave

HookStep ==
    \/ ChannelDSPCallback_Enter
    \/ ChannelDSPCallback_StoreLevels
    \/ ChannelDSPCallback_EndCopy

TakeoverStep ==
    \/ RequestTakeover_Begin
    \/ RequestTakeover_StoreFlags
    \/ CtlReleaseTakeover

LifecycleStep ==
    \/ Destroy_Wait
    \/ Destroy_Flags
    \/ Destroy_State
    \/ Destroy_Events
    \/ Destroy_Unmap
    \/ AccessViolation

ConsumerStep ==
    \/ Host_Wake
    \/ Host_Process
    \/ Host_Finish

PanicStep ==
    \/ RequestPanic_Load
    \/ RequestPanic_StoreRequest
    \/ RequestPanic_StoreAck
    \/ ClearPanicAck_Load
    \/ ClearPanicAck_Store
    \/ PollPermafrostMixerCommands
    \/ AcknowledgePanic_Load
    \/ AcknowledgePanic_StoreRequest
    \/ AcknowledgePanic_StoreAck

\* ---- Spec: every thread, a host that answers in no bounded time or stops ----

Init == InitWith("late", TRUE, MaxBeats)

Next ==
    \/ ProcessAudioFrame_Enter
    \/ FrameStep
    \/ HookStep
    \/ TakeoverStep
    \/ LifecycleStep
    \/ ConsumerStep
    \/ Host_Stop
    \/ PanicStep

Spec == Init /\ [][Next]_vars

\* ---- LiveSpec: a bus that is not destroyed, the audio thread calling ----
\* ---- process_frame for ever                                             ----

\* The steps that complete an operation the management thread has begun.
CtlFinish ==
    \/ RequestTakeover_StoreFlags
    \/ AcknowledgePanic_Load
    \/ AcknowledgePanic_StoreRequest
    \/ AcknowledgePanic_StoreAck

\* The steps that complete an operation the host's control thread has begun.
HctlFinish ==
    \/ RequestPanic_StoreRequest
    \/ RequestPanic_StoreAck
    \/ ClearPanicAck_Store

LiveNext ==
    \/ ProcessAudioFrame_EnterAgain
    \/ FrameStep
    \/ HookStep
    \/ TakeoverStep
    \/ ConsumerStep
    \/ Host_Stop
    \/ PanicStep

\* The audio thread is scheduled fairly: the output stage calls process_frame frame
\* after frame, and its bounded wait gets a mutex that keeps being released (strong
\* fairness); a capture hook returns.  A thread that is in the middle of an
\* operation completes it, unless it belongs to a host that has stopped.  The
\* health thread polls for commands again and again, and its zero-timeout try finds
\* the mutex free if it is free again and again (strong fairness).
LiveSpec ==
    /\ Init
    /\ [][LiveNext]_vars
    /\ SF_vars(ProcessAudioFrame_EnterAgain \/ FrameStep)
    /\ SF_vars(PollPermafrostMixerCommands)
    /\ WF_vars(ChannelDSPCallback_StoreLevels \/ ChannelDSPCallback_EndCopy)
    /\ WF_vars(CtlFinish)
    /\ WF_vars(HctlFinish)

\* ---- ScenarioSpec: the end-to-end scenarios (request_takeover, then frames) ----

ScenarioInit ==
    \E speed \in {"prompt", "late"}, counts \in BOOLEAN : InitWith(speed, counts, MaxCount)

ScenarioNext ==
    \/ ProcessAudioFrame_EnterTakeover
    \/ FrameStep
    \/ HookStep
    \/ RequestTakeover_Begin
    \/ RequestTakeover_StoreFlags
    \/ ConsumerStep

ScenarioSpec == ScenarioInit /\ [][ScenarioNext]_vars

\* ===================== properties =====================

\* Several lifetimes of the bus: destroy and create again, with frames, hooks,
\* takeovers and the host consumer, each lifetime bounded to limit frames.
LifetimeNext ==
    \/ ProcessAudioFrame_Enter
    \/ FrameStep
    \/ HookStep
    \/ TakeoverStep
    \/ LifecycleStep
    \/ AudioBus_Create
    \/ SignalAudioReady_Alone
    \/ WaitForProcessedAudio_Alone
    \/ ConsumerStep

LifetimeInit == InitWith("late", TRUE, MaxLife)

LifetimeSpec == LifetimeInit /\ [][LifetimeNext]_vars

\* Two synth processes at once: the first with its frames, its takeover requests
\* and its host, the second created, calling process_frame and destroyed.
CoexistNext ==
    \/ ProcessAudioFrame_Enter
    \/ FrameStep
    \/ RequestTakeover_Begin
    \/ RequestTakeover_StoreFlags
    \/ ConsumerStep
    \/ Synth2Step

CoexistInit == InitWith("late", TRUE, MaxShared)

CoexistSpec == CoexistInit /\ [][CoexistNext]_vars


\* No AudioBus_Destroy has begun on the bus.
BusUp == g.Initialized /\ cpc \notin {"d_flags", "d_state", "d_events", "d_unmap"}

AudioEnabled == HasFlag(hdr.Flags, AUDIOBUS_FLAG_AUDIO_ENABLED)

\* The step is the store of AudioBus_ProcessFrameBoundary to TakeoverState.
IsFrameBoundaryStore == apc = "pfb_state" /\ apc' # "pfb_state"

\* The step is the store of AudioBus_Destroy to TakeoverState.
IsDestroyStore == cpc = "d_state" /\ cpc' = "d_events"

\* C1: on a bus that is up (created, no destroy begun), whatever the interleaving
\* of request_takeover, release_takeover, process_frame, the panic operations and
\* the capture hooks, TakeoverState = ACTIVE implies that AUDIO_ENABLED is set.
C1_ActiveImpliesAudioEnabled ==
    (BusUp /\ hdr.TakeoverState = TAKEOVER_ACTIVE) => AudioEnabled

\* C2: every change of TakeoverState that request_takeover, release_takeover or
\* process_frame makes (every change but the store of destroy) is one of the five
\* edges Direct->Pending, Pending->Active, Pending->Releasing, Active->Releasing,
\* Releasing->Direct.
C2_OnlyFsmEdges ==
    [][ (hdr'.TakeoverState # hdr.TakeoverState /\ ~IsDestroyStore)
        => <<hdr.TakeoverState, hdr'.TakeoverState>> \in
              { <<TAKEOVER_DIRECT, TAKEOVER_PENDING>>,
                <<TAKEOVER_PENDING, TAKEOVER_ACTIVE>>,
                <<TAKEOVER_PENDING, TAKEOVER_RELEASING>>,
                <<TAKEOVER_ACTIVE, TAKEOVER_RELEASING>>,
                <<TAKEOVER_RELEASING, TAKEOVER_DIRECT>> } ]_vars

\* C3 as stated: a step that changes TakeoverState from PENDING to ACTIVE or from
\* RELEASING to DIRECT is the store of the frame-boundary handler; no other
\* operation, destroy included, makes such a change.
C3_OnlyFrameBoundary ==
    [][ ( \/ (hdr.TakeoverState = TAKEOVER_PENDING /\ hdr'.TakeoverState = TAKEOVER_ACTIVE)
          \/ (hdr.TakeoverState = TAKEOVER_RELEASING /\ hdr'.TakeoverState = TAKEOVER_DIRECT) )
        => IsFrameBoundaryStore ]_vars

\* C3, amended: PENDING -> ACTIVE is made only by the store of the frame-boundary
\* handler; RELEASING -> DIRECT is made only by that store or by the store of
\* destroy, which forces DIRECT whatever the state is.
C3_OnlyFrameBoundaryOrDestroy ==
    [][ /\ (hdr.TakeoverState = TAKEOVER_PENDING /\ hdr'.TakeoverState = TAKEOVER_ACTIVE)
           => IsFrameBoundaryStore
        /\ (hdr.TakeoverState = TAKEOVER_RELEASING /\ hdr'.TakeoverState = TAKEOVER_DIRECT)
           => (IsFrameBoundaryStore \/ IsDestroyStore) ]_vars

\* The frame-boundary handler has just taken a RELEASING bus to DIRECT.
C3_Witness ==
    /\ apc = "pfb_flags" /\ call.start = TAKEOVER_RELEASING
    /\ hdr.TakeoverState = TAKEOVER_DIRECT

\* C4: from a state where the takeover is ACTIVE and the host has stopped for good,
\* fair scheduling of process_frame leads to TakeoverState = DIRECT with
\* AUDIO_ENABLED clear (unless a new request_takeover is made first).
C4_StoppedHostLeadsToDirect ==
    (hdr.TakeoverState = TAKEOVER_ACTIVE /\ host.speed = "stopped")
        ~> ((hdr.TakeoverState = TAKEOVER_DIRECT /\ ~AudioEnabled) \/ cpc = "rt_flags")

\* C5: a process_frame call that found TakeoverState = RELEASING returns FALSE and
\* has neither swapped OutWriteIndex nor set AudioReady; and under fair scheduling
\* of process_frame a bus that a release has made RELEASING becomes DIRECT.
C5_ReleasingLeadsToDirect ==
    /\ []((apc = "returned" /\ call.start = TAKEOVER_RELEASING)
            => (~a.ret /\ ~call.swapped /\ ~call.signalled))
    /\ (hdr.TakeoverState = TAKEOVER_RELEASING) ~> (hdr.TakeoverState = TAKEOVER_DIRECT)

\* C6: what read_processed_audio has copied for a frame that returned TRUE is the
\* mix the host completed for that frame, and while it copies, the buffer it reads
\* is not the one InWriteIndex designates for the host's next write.
C6_ReadsCompletedBuffer ==
    /\ (apc = "returned" /\ a.ret /\ a.got # "none") => a.got = "fresh"
    /\ (apc = "read_copy") => a.rslot # hdr.InWriteIndex

\* C7: a capture hook copying into an OUT buffer and the host consumer reading the
\* OUT buffers never have the same slot in hand.
C7_HookAndHostOnDistinctSlots ==
    ~(apc = "hook_copy" /\ hpc = "read" /\ a.slot = host.slot)

\* C8: on a bus that is up, a process_frame call whose wait on ProcessedReady timed
\* out returns FALSE with TakeoverState = RELEASING; and a call that found
\* RELEASING stores DIRECT at its frame boundary and returns FALSE.
C8_TimeoutReleases ==
    /\ []((BusUp /\ apc = "returned" /\ call.how = "timeout")
             => (~a.ret /\ hdr.TakeoverState = TAKEOVER_RELEASING))
    /\ [][(IsFrameBoundaryStore /\ call.start = TAKEOVER_RELEASING)
             => hdr'.TakeoverState = TAKEOVER_DIRECT]_vars
    /\ []((BusUp /\ apc = "returned" /\ call.start = TAKEOVER_RELEASING) => ~a.ret)

\* The stub hosts of the end-to-end scenarios: both set ProcessedReady within the
\* frame timeout; one never advances InFrameCounter.
FrozenHost == host.speed = "prompt" /\ ~host.counts
StubHost == host.speed = "prompt" /\ host.counts

\* C9 as stated: with a host that answers every frame but never advances
\* InFrameCounter, the 4th process_frame call of the takeover is the one on which
\* the liveness check fires: it returns FALSE and leaves the state RELEASING.
C9_FiresOnFourthCall ==
    (FrozenHost /\ apc = "returned" /\ hdr.HeartbeatCounter = 4)
        => (call.how = "drift" /\ ~a.ret /\ hdr.TakeoverState = TAKEOVER_RELEASING)

\* C9 amended: with such a host the first 4 process_frame calls of the takeover
\* return TRUE and leave OutFrameCounter = InFrameCounter + call number; the
\* liveness check fires on the 5th call (OutFrameCounter = InFrameCounter + 4),
\* which swaps and signals nothing, returns FALSE and leaves the state RELEASING.
C9_FiresOnFifthCall ==
    (FrozenHost /\ apc = "returned") =>
        /\ hdr.HeartbeatCounter \in 1..4 =>
              /\ a.ret /\ call.how = "ok"
              /\ hdr.TakeoverState = TAKEOVER_ACTIVE
              /\ hdr.OutFrameCounter = hdr.InFrameCounter + hdr.HeartbeatCounter
        /\ hdr.HeartbeatCounter = 5 =>
              /\ ~a.ret /\ call.how = "drift" /\ ~call.swapped /\ ~call.signalled
              /\ hdr.TakeoverState = TAKEOVER_RELEASING
              /\ hdr.OutFrameCounter = hdr.InFrameCounter + 4

C9_Witness ==
    /\ FrozenHost /\ apc = "returned" /\ hdr.HeartbeatCounter = 5
    /\ call.how = "drift" /\ hdr.TakeoverState = TAKEOVER_RELEASING

\* C10: with a host that answers every AudioReady in time and advances
\* InWriteIndex and InFrameCounter, a finished request_takeover leaves PENDING with
\* AUDIO_ENABLED set, the first process_frame finds PENDING, and every
\* process_frame returns TRUE in state ACTIVE with
\* OutFrameCounter = InFrameCounter = the number of frames made.
C10_StubHostKeepsTakeover ==
    StubHost =>
        /\ (cpc = "idle" /\ hdr.TakeoverState = TAKEOVER_PENDING) => AudioEnabled
        /\ (apc = "returned") =>
              /\ a.ret /\ call.how = "ok"
              /\ hdr.TakeoverState = TAKEOVER_ACTIVE
              /\ hdr.OutFrameCounter = hdr.HeartbeatCounter
              /\ hdr.InFrameCounter = hdr.HeartbeatCounter
              /\ (hdr.HeartbeatCounter = 1) = (call.start = TAKEOVER_PENDING)

C10_Witness ==
    /\ StubHost /\ apc = "returned" /\ a.ret
    /\ hdr.OutFrameCounter = 5 /\ hdr.InFrameCounter = 5

\* The hook goes past its checks (to the meter update or to the copy).
IsHookStart == apc = "idle" /\ apc' \in {"hook_levels", "hook_copy"}

\* C11: a process_frame call whose frame boundary leaves a state other than ACTIVE
\* returns FALSE without swapping, signalling AudioReady or waiting on
\* ProcessedReady (so a call that starts in DIRECT always does); OutWriteIndex and
\* OutFrameCounter change only in the swap of a call that found ACTIVE; and a capture
\* hook goes past its checks only when the state it reads is ACTIVE.
C11_NoTrafficUnlessActive ==
    /\ []((apc = "returned" /\ FrameBoundaryState(call.start) # TAKEOVER_ACTIVE)
             => /\ ~a.ret /\ call.how \in {"direct", "uninit"}
                /\ ~call.swapped /\ ~call.signalled)
    /\ [][(\/ hdr'.OutWriteIndex # hdr.OutWriteIndex
            \/ hdr'.OutFrameCounter # hdr.OutFrameCounter
            \/ (audioReady' /\ ~audioReady))
             => (apc \in {"swap", "swap_count", "signal"}
                 /\ FrameBoundaryState(call.start) = TAKEOVER_ACTIVE)]_vars
    /\ [][IsHookStart => hdr.TakeoverState = TAKEOVER_ACTIVE]_vars

C11_Witness ==
    /\ apc = "returned" /\ call.start = TAKEOVER_DIRECT /\ call.how = "direct"
    /\ hdr.HeartbeatCounter >= 2 /\ hdr.OutFrameCounter = 0
    /\ hdr.TakeoverState = TAKEOVER_PENDING

\* No counter of the header is lower after the step than before it.
CountersKeepOrGrow ==
    /\ hdr'.OutFrameCounter >= hdr.OutFrameCounter
    /\ hdr'.InFrameCounter >= hdr.InFrameCounter
    /\ hdr'.HeartbeatCounter >= hdr.HeartbeatCounter

\* A create that initialises the region (the bus was not initialised).
IsCreateInit == ~g.Initialized /\ g'.Initialized

\* C12 as stated: OutFrameCounter, InFrameCounter and HeartbeatCounter never
\* decrease in any step, destroy and a create after it included.
C12_CountersNeverDecrease == [][CountersKeepOrGrow]_vars

\* C12 amended: the three counters never decrease in any step of a lifetime of the
\* bus, destroy and a create on an initialised bus included; a create that
\* follows a destroy sets all three to 0.
C12_CountersGrowWithinLifetime ==
    [][IF IsCreateInit
       THEN /\ hdr'.OutFrameCounter = 0
            /\ hdr'.InFrameCounter = 0
            /\ hdr'.HeartbeatCounter = 0
       ELSE CountersKeepOrGrow]_vars

C12_Witness ==
    /\ ~g.Initialized /\ ~g.Mapped /\ cpc = "idle"
    /\ hdr.OutFrameCounter >= 1 /\ hdr.InFrameCounter >= 1 /\ hdr.HeartbeatCounter >= 2

\* C13: a process_frame call that returns TRUE has swapped once and left
\* OutFrameCounter one above what it found (so N such calls add exactly N), and the
\* IN buffer it then reads is the one the host completed for that very frame.
C13_OneFramePerTrueCall ==
    (apc = "returned" /\ a.ret) =>
        /\ call.swapped
        /\ hdr.OutFrameCounter = call.out + 1
        /\ a.got # "none" => a.got = "fresh"

\* The swap of AudioBus_SwapOutBuffer is made.
IsSwap == apc = "swap" /\ apc' = "swap_count"

\* C14: the four buffer indices of the header hold 0 or 1 in every state; each swap
\* of process_frame flips OutWriteIndex; OutWriteIndex changes in no other step but
\* an initialising create, which stores 0; and no step of the synth other than that
\* create changes OutReadIndex, InReadIndex or InWriteIndex.
C14_IndicesAreBits ==
    /\ [](/\ hdr.OutWriteIndex \in {0, 1} /\ hdr.OutReadIndex \in {0, 1}
          /\ hdr.InWriteIndex \in {0, 1} /\ hdr.InReadIndex \in {0, 1})
    /\ [][IsSwap => hdr'.OutWriteIndex = 1 - hdr.OutWriteIndex]_vars
    /\ [][(hdr'.OutWriteIndex # hdr.OutWriteIndex /\ ~IsSwap)
             => (IsCreateInit /\ hdr'.OutWriteIndex = 0)]_vars
    /\ [][(\/ hdr'.OutReadIndex # hdr.OutReadIndex
            \/ hdr'.InReadIndex # hdr.InReadIndex
            \/ hdr'.InWriteIndex # hdr.InWriteIndex)
             => (IsCreateInit \/ hpc = "write")]_vars

C14_Witness ==
    /\ hdr.OutWriteIndex = 0 /\ hdr.OutFrameCounter = 2 /\ call.swapped
    /\ hdr.InWriteIndex = 1

\* AudioBus_RequestTakeover goes on to its stores.
IsRequestStore == cpc = "idle" /\ cpc' = "rt_flags"

\* C15: on the TakeoverState and Flags of any reachable state, request_takeover
\* changes nothing when the state is PENDING or ACTIVE, release_takeover changes
\* nothing when it is DIRECT, and either operation applied twice gives what it
\* gives applied once; in the program, a request stores only when it finds DIRECT
\* and a release changes TakeoverState only from ACTIVE or PENDING, never Flags.
C15_TakeoverIdempotent ==
    /\ [](LET s == hdr.TakeoverState
              f == hdr.Flags
              s1 == RequestTakeoverState(s)
              f1 == RequestTakeoverFlags(s, f)
              r1 == ReleaseTakeoverState(s)
          IN  /\ s \in {TAKEOVER_PENDING, TAKEOVER_ACTIVE} => (s1 = s /\ f1 = f)
              /\ s = TAKEOVER_DIRECT => r1 = s
              /\ RequestTakeoverState(s1) = s1
              /\ RequestTakeoverFlags(s1, f1) = f1
              /\ ReleaseTakeoverState(r1) = r1)
    /\ [][IsRequestStore => hdr.TakeoverState = TAKEOVER_DIRECT]_vars
    /\ [][CtlReleaseTakeover
             => /\ hdr.TakeoverState \in {TAKEOVER_ACTIVE, TAKEOVER_PENDING}
                /\ hdr'.TakeoverState = TAKEOVER_RELEASING
                /\ hdr'.Flags = hdr.Flags]_vars

C15_Witness ==
    /\ hdr.TakeoverState = TAKEOVER_RELEASING /\ cpc = "idle" /\ mutexOwner = "none"
    /\ AudioEnabled /\ g.Initialized

PanicRequested == HasFlag(hdr.Flags, AUDIOBUS_FLAG_PANIC_REQUEST)
PanicAcked == HasFlag(hdr.Flags, AUDIOBUS_FLAG_PANIC_ACK)

\* C16: request_panic leaves PanicRequest set and PanicAck clear, a
\* check_panic_request made then (bus connected, mutex free) finds the request;
\* acknowledge_panic leaves PanicRequest clear and PanicAck set; clear_panic_ack on
\* that leaves both clear; and on the Flags of any reachable state the three
\* stores in that order give back the idle Flags they started from.
C16_PanicRoundTrip ==
    /\ [][RequestPanic_StoreAck => (PanicRequested' /\ ~PanicAcked')]_vars
    /\ []((PanicRequested /\ ~crashed /\ cpc = "idle" /\ MutexFree
            /\ g.Initialized /\ g.Mapped /\ g.Mutex)
             => ENABLED PollPermafrostMixerCommands)
    /\ [][PollPermafrostMixerCommands => PanicRequested]_vars
    /\ [][AcknowledgePanic_StoreAck => (~PanicRequested' /\ PanicAcked')]_vars
    /\ [][(ClearPanicAck_Store /\ ~HasFlag(hc.flags, AUDIOBUS_FLAG_PANIC_REQUEST))
             => (~PanicRequested' /\ ~PanicAcked')]_vars
    /\ [](LET idle == ClearFlag(ClearFlag(hdr.Flags, AUDIOBUS_FLAG_PANIC_REQUEST),
                                AUDIOBUS_FLAG_PANIC_ACK)
              req == ClearFlag(SetFlag(idle, AUDIOBUS_FLAG_PANIC_REQUEST),
                               AUDIOBUS_FLAG_PANIC_ACK)
              ack == SetFlag(ClearFlag(req, AUDIOBUS_FLAG_PANIC_REQUEST),
                             AUDIOBUS_FLAG_PANIC_ACK)
          IN  /\ HasFlag(req, AUDIOBUS_FLAG_PANIC_REQUEST)
              /\ ~HasFlag(req, AUDIOBUS_FLAG_PANIC_ACK)
              /\ ~HasFlag(ack, AUDIOBUS_FLAG_PANIC_REQUEST)
              /\ HasFlag(ack, AUDIOBUS_FLAG_PANIC_ACK)
              /\ ClearFlag(ack, AUDIOBUS_FLAG_PANIC_ACK) = idle)

C16_Witness ==
    /\ hcpc = "ca_store" /\ HasFlag(hc.flags, AUDIOBUS_FLAG_PANIC_ACK)
    /\ ~HasFlag(hc.flags, AUDIOBUS_FLAG_PANIC_REQUEST)

\* C17: whenever nobody holds the mutex (the Flags word as a peer that takes the
\* mutex can read it), PanicRequest and PanicAck are not both set.
C17_NoForbiddenPanicState == MutexFree => ~(PanicRequested /\ PanicAcked)

\* PanicRequest goes from set to clear in the header.
IsRequestCleared == PanicRequested /\ ~PanicRequested'

\* C18: a state with PanicRequest set leads to one with PanicRequest clear and
\* PanicAck set (unless a stopped host keeps the mutex), and PanicRequest is cleared
\* by no step other than the store of acknowledge_panic, which the poller calls
\* after ResetSynth.
C18_PanicRequestHandled ==
    /\ PanicRequested ~> ((~PanicRequested /\ PanicAcked) \/ MutexStuck)
    /\ [][IsRequestCleared => AcknowledgePanic_StoreRequest]_vars

\* A store of AudioBus_AcknowledgePanic into Flags.
IsAcknowledgeStore == cpc \in {"ack_req", "ack_ack"} /\ cpc' # cpc

\* The Active and AudioEnabled bits of a Flags word.
TakeoverBits(flags) ==
    <<HasFlag(flags, AUDIOBUS_FLAG_ACTIVE), HasFlag(flags, AUDIOBUS_FLAG_AUDIO_ENABLED)>>

\* C19: a poll that finds PanicRequest calls ResetSynth and then acknowledge_panic;
\* when the acknowledgement returns PanicAck is set and PanicRequest clear, and no
\* store of the acknowledgement changes TakeoverState or the Active and
\* AudioEnabled bits.
C19_PollAcknowledgesOnly ==
    /\ [][AcknowledgePanic_StoreAck => (PanicAcked' /\ ~PanicRequested')]_vars
    /\ [][IsAcknowledgeStore =>
             /\ hdr'.TakeoverState = hdr.TakeoverState
             /\ TakeoverBits(hdr'.Flags) = TakeoverBits(hdr.Flags)]_vars

\* Timeouts (ms) of the mutex waits made on the audio thread: the try of
\* AudioBus_UpdateChannelLevels and the wait of AudioBus_ReleaseTakeover.
UpdateChannelLevelsWaitMs == 0
AUDIOBUS_TAKEOVER_TIMEOUT_MS == 100

\* Timeout of the mutex wait the audio thread is at: the hook makes its try when it
\* starts, process_frame waits in the release that follows drift or a timeout.
AudioMutexWaitMs ==
    CASE apc = "release" /\ g.Initialized /\ g.Mapped /\ g.Mutex -> AUDIOBUS_TAKEOVER_TIMEOUT_MS
      [] apc = "idle" /\ ENABLED ChannelDSPCallback_Enter /\ g.Mutex -> UpdateChannelLevelsWaitMs
      [] OTHER -> 0

\* The audio thread is inside a wait on the mutex that does not return at once:
\* the mutex is held by another thread and the timeout is not zero.
AudioWaitsOnMutex == ~crashed /\ ~MutexFree /\ AudioMutexWaitMs > 0

\* C20: the audio thread is never in a mutex wait with a non-zero timeout while
\* another thread holds the mutex.
C20_AudioNeverBlocksOnMutex == ~AudioWaitsOnMutex

\* ---- the queries of the bus, on the globals gl and the header h they find ----

\* AudioBus_IsConnected.
IsConnected(gl) == gl.Initialized /\ gl.Mapped

\* AudioBus_GetTakeoverState.
GetTakeoverState(gl, h) ==
    IF ~gl.Initialized \/ ~gl.Mapped THEN TAKEOVER_DIRECT ELSE h.TakeoverState

\* AudioBus_IsTakeoverActive, with its check of the globals.
TakeoverActive(gl, h) ==
    IF ~gl.Initialized \/ ~gl.Mapped THEN FALSE ELSE IsTakeoverActive(h.TakeoverState)

\* AudioBus_GetFlags: 0 when not initialised or when the zero-timeout try of the
\* mutex fails (free says that the mutex is free).
GetFlags(gl, h, free) ==
    IF ~gl.Initialized \/ ~gl.Mapped THEN 0
    ELSE IF free THEN h.Flags ELSE 0

\* AudioBus_CheckPanicRequest: FALSE when not initialised or when the try fails.
CheckPanicRequest(gl, h, free) ==
    IF ~gl.Initialized \/ ~gl.Mapped THEN FALSE
    ELSE IF free THEN HasFlag(h.Flags, AUDIOBUS_FLAG_PANIC_REQUEST) ELSE FALSE

\* The audio thread starts an operation (a frame, a hook, a call of its own).
IsAudioCall == apc = "idle" /\ apc' # "idle"

\* C21: while the bus is not initialised the queries return their safe defaults
\* (is_connected false, get_takeover_state Direct, is_takeover_active false,
\* get_flags 0, check_panic_request false), wait_for_processed_audio can only
\* return false and signal_audio_ready finds no handle to set; and an operation
\* the audio thread starts then returns false at once, having changed neither the
\* region, nor an event, nor the mutex.
C21_UninitialisedNoOps ==
    /\ [](~g.Initialized =>
            /\ ~IsConnected(g)
            /\ GetTakeoverState(g, hdr) = TAKEOVER_DIRECT
            /\ ~TakeoverActive(g, hdr)
            /\ GetFlags(g, hdr, MutexFree) = 0
            /\ ~CheckPanicRequest(g, hdr, MutexFree)
            /\ WaitForProcessedAudioResults(EventHandle(g, "processed"), processedReady)
                  = {FALSE}
            /\ EventHandle(g, "audio") = "null")
    /\ [][(~g.Initialized /\ IsAudioCall) =>
             /\ UNCHANGED <<mem, events, mutexOwner>>
             /\ apc' = "returned" /\ ~a'.ret /\ call'.how = "uninit"]_vars

\* The globals of a bus on which nothing was ever created: not initialised, no
\* mapping, no pointers, no mutex handle, both event globals NULL.
AllNull(gl) ==
    /\ ~gl.Initialized /\ ~gl.Mapped /\ ~gl.Mutex /\ ~gl.ChannelDSPActive
    /\ EventHandle(gl, "audio") = "null"
    /\ EventHandle(gl, "processed") = "null"

\* The step is a call of AudioBus_Create that fails.
IsCreateFailure == AudioBus_Create /\ ~g.Initialized /\ ~g'.Initialized

\* C22: a create that fails leaves the bus not initialised with the mapping, the
\* pointers, the mutex handle and both event handles NULL, and the region as it
\* was.
C22_FailedCreateLeavesNothing ==
    [][IsCreateFailure => (AllNull(g') /\ UNCHANGED <<mem, events, mutexOwner>>)]_vars

\* The step is a call of AudioBus_Create on a bus that is initialised.
IsCreateAgain == AudioBus_Create /\ g.Initialized

\* C23: create on a bus that is initialised changes nothing: not the header, not
\* the buffers, not a handle, not an event, whatever the takeover state.
C23_CreateIdempotent ==
    [][IsCreateAgain => UNCHANGED <<mem, g, events, mutexOwner>>]_vars

\* Create can be called on an initialised bus whose takeover is active and whose
\* counters have advanced.
C23_Witness ==
    /\ ENABLED AudioBus_Create /\ g.Initialized
    /\ hdr.TakeoverState = TAKEOVER_ACTIVE
    /\ hdr.OutFrameCounter > 0 /\ hdr.HeartbeatCounter > 0
    /\ AudioEnabled

\* The steps of AudioBus_Destroy after its wait on the mutex.
DestroyRest == Destroy_Flags \/ Destroy_State \/ Destroy_Events \/ Destroy_Unmap

\* C24: destroy is never held up: its wait on the mutex ends when a stopped host
\* holds the mutex, and each later step can be taken when it is reached; and at
\* its return the header shows Active clear and TakeoverState = DIRECT, the
\* region is unmapped, every handle and pointer is NULL and is_connected is false.
C24_DestroyTerminatesClean ==
    /\ []((~crashed /\ cpc = "idle" /\ g.Initialized /\ MutexStuck) => ENABLED Destroy_Wait)
    /\ []((~crashed /\ cpc \in {"d_flags", "d_state", "d_events", "d_unmap"})
            => ENABLED DestroyRest)
    /\ [][Destroy_Unmap =>
             /\ ~HasFlag(hdr'.Flags, AUDIOBUS_FLAG_ACTIVE)
             /\ hdr'.TakeoverState = TAKEOVER_DIRECT
             /\ AllNull(g')
             /\ ~IsConnected(g')]_vars

\* The header carries the magic bytes and the protocol version.
Stamped(h) == h.Magic = <<"O", "M", "A", "B">> /\ h.Version = AUDIOBUS_VERSION

\* C25: a create that succeeds leaves the header stamped with 'OMAB' and the
\* protocol version, TakeoverState DIRECT, Flags = ACTIVE alone, the four indices
\* and the three counters 0; and whenever the Active flag is set the header is
\* stamped.
C25_StampedWhileActive ==
    /\ [][IsCreateInit =>
             /\ Stamped(hdr')
             /\ hdr'.TakeoverState = TAKEOVER_DIRECT
             /\ hdr'.Flags = AUDIOBUS_FLAG_ACTIVE
             /\ hdr'.OutWriteIndex = 0 /\ hdr'.OutReadIndex = 0
             /\ hdr'.InWriteIndex = 0 /\ hdr'.InReadIndex = 0
             /\ hdr'.OutFrameCounter = 0 /\ hdr'.InFrameCounter = 0
             /\ hdr'.HeartbeatCounter = 0]_vars
    /\ [](HasFlag(hdr.Flags, AUDIOBUS_FLAG_ACTIVE) => Stamped(hdr))

\* A bus created again after a destroy (the audio thread still holds the result
\* of a frame it began in between), on which a takeover is then requested.
C25_Witness ==
    /\ g.Initialized /\ call.how = "uninit"
    /\ HasFlag(hdr.Flags, AUDIOBUS_FLAG_ACTIVE)
    /\ hdr.TakeoverState = TAKEOVER_PENDING
    /\ Stamped(hdr)

\* C26: no step of a second synth process (its create, process_frame, destroy)
\* changes the header or the audio buffers that the first synth and its host use,
\* or sets or consumes AudioReady or ProcessedReady of the first.
C26_InstancesCoexist ==
    [][Synth2Step => UNCHANGED <<mem, events>>]_vars

\* A step of a synth-side operation: process_frame, a capture hook,
\* request_takeover, release_takeover, the panic poll and acknowledge_panic.
SynthOperation ==
    \/ EnterFrame
    \/ FrameStep
    \/ HookStep
    \/ TakeoverStep
    \/ PollPermafrostMixerCommands
    \/ AcknowledgePanic_Load
    \/ AcknowledgePanic_StoreRequest
    \/ AcknowledgePanic_StoreAck

\* A step of request_panic or clear_panic_ack.
HostPanicOperation ==
    \/ RequestPanic_Load
    \/ RequestPanic_StoreRequest
    \/ RequestPanic_StoreAck
    \/ ClearPanicAck_Load
    \/ ClearPanicAck_Store

\* C27: no step of a synth-side operation changes InWriteIndex, InFrameCounter or
\* the PanicRequest bit, and no step of request_panic or clear_panic_ack changes
\* TakeoverState, OutWriteIndex, OutFrameCounter, HeartbeatCounter or the PanicAck
\* bit.
C27_SingleWriter ==
    /\ [][SynthOperation =>
             /\ hdr'.InWriteIndex = hdr.InWriteIndex
             /\ hdr'.InFrameCounter = hdr.InFrameCounter
             /\ PanicRequested' = PanicRequested]_vars
    /\ [][HostPanicOperation =>
             /\ hdr'.TakeoverState = hdr.TakeoverState
             /\ hdr'.OutWriteIndex = hdr.OutWriteIndex
             /\ hdr'.OutFrameCounter = hdr.OutFrameCounter
             /\ hdr'.HeartbeatCounter = hdr.HeartbeatCounter
             /\ PanicAcked' = PanicAcked]_vars

\* No operation is between its store to TakeoverState and its store to Flags, and
\* none holds the mutex.
FlagsSettled == MutexFree /\ apc \notin {"pfb_flags", "pfb_flags_w"}

\* C28: between create and destroy, whenever no operation is in the middle of its
\* two stores, the AudioEnabled bit is set if and only if TakeoverState is not
\* DIRECT.
C28_AudioEnabledTracksState ==
    (BusUp /\ FlagsSettled) => (AudioEnabled <=> hdr.TakeoverState # TAKEOVER_DIRECT)

\* C29: no step of the capture hook, the channel-meter update included, changes
\* the holder of the mutex.
C29_HookLeavesMutex ==
    [][HookStep => mutexOwner' = mutexOwner]_vars

\* The step is the drift check of a frame.
IsDriftCheck == apc = "alive" /\ apc' # "alive"

\* The drift check finds more than DriftAllowance frames unanswered.
Drifting ==
    /\ hdr.TakeoverState = TAKEOVER_ACTIVE
    /\ hdr.OutFrameCounter > hdr.InFrameCounter + DriftAllowance

\* C30: the drift check comes before the swap and releases exactly when the state
\* is ACTIVE and OutFrameCounter > InFrameCounter + 3 at that moment; a frame it
\* released has not swapped, has not counted, has not signalled AudioReady, does
\* not come to the wait on ProcessedReady and returns FALSE.
C30_DriftCheckBeforeSwap ==
    /\ [][IsDriftCheck =>
             /\ ~call.swapped /\ ~call.signalled
             /\ IF Drifting THEN apc' = "release" /\ call'.how = "drift"
                            ELSE apc' = "swap" /\ call'.how # "drift"]_vars
    /\ [](call.how = "drift" =>
             /\ ~call.swapped /\ ~call.signalled
             /\ hdr.OutFrameCounter = call.out
             /\ apc \in {"release", "release_body", "returned"}
             /\ ~a.ret)

\* A frame that the drift check released has returned FALSE; the takeover is
\* being released.
C30_Witness ==
    /\ call.how = "drift" /\ apc = "returned" /\ ~a.ret
    /\ hdr.OutFrameCounter > hdr.InFrameCounter + DriftAllowance
    /\ hdr.TakeoverState = TAKEOVER_RELEASING

\* The step sets the event AudioReady.
IsAudioReadySet == apc = "signal" /\ call'.signalled

\* The step wakes the host's consumer on AudioReady.
IsHostWake == hpc = "wait" /\ hpc' = "read"

\* C31: in a frame the swap of OutWriteIndex comes first, then the increment of
\* OutFrameCounter, then AudioReady: a frame is at its increment only after its
\* swap, it sets AudioReady only after both, OutFrameCounter then counts it, and
\* the host is never woken by AudioReady while OutFrameCounter is 0.
C31_SwapCountSignal ==
    /\ [](apc = "swap_count" => (call.swapped /\ ~call.signalled))
    /\ [](apc = "swap" => (~call.swapped /\ ~call.signalled))
    /\ [][IsAudioReadySet =>
             /\ call.swapped
             /\ hdr.OutFrameCounter = call.out + 1]_vars
    /\ [][IsHostWake => (published /\ hdr.OutFrameCounter > 0)]_vars

\* C32: every OUT buffer that process_frame publishes (the swap that AudioReady
\* follows) was filled by the capture hooks during that same frame, the frame whose
\* boundary commits Pending to Active included.
C32_PublishedBufferCaptured ==
    [][IsSwap => outBuf[hdr.OutWriteIndex % 2] > 0]_vars

\* C33: whenever AudioReady is signalled for a published frame, CurrentFrameSamples
\* of the header equals the number of stereo samples the capture hooks wrote into
\* the OUT buffer just completed, and it never exceeds the size of a buffer slot.
C33_CurrentFrameSamplesValid ==
    /\ [](hdr.CurrentFrameSamples <= MaxChunk)
    /\ [][(IsAudioReadySet /\ call.swapped) =>
             hdr.CurrentFrameSamples = outBuf[OtherIndex(hdr.OutWriteIndex)]]_vars

\* The step is the heartbeat step of a process_frame call.
IsHeartbeatStep == apc = "heartbeat" /\ apc' # "heartbeat"

\* C34: every process_frame call that found the bus initialised increments
\* HeartbeatCounter by exactly 1, whatever the takeover state and the outcome of the
\* call, and no other step of any operation changes HeartbeatCounter.
C34_HeartbeatCountsFrames ==
    /\ [][IsHeartbeatStep => hdr'.HeartbeatCounter = hdr.HeartbeatCounter + 1]_vars
    /\ [][hdr'.HeartbeatCounter # hdr.HeartbeatCounter => IsHeartbeatStep]_vars

\* ===================== the meters =====================

\* Everything but the meters.
notMeters == <<hdr, inBuf, published, audioReady, processedReady, mutexOwner, g,
               apc, a, call, cpc, c, hpc, host, hcpc, hc, crashed, limit, synth2,
               outBuf>>

\* A try that gets the mutex whoever holds it: not what a zero-timeout
\* WaitForSingleObject does.
TryMutex_Always == g.Mutex

\* WaitForSingleObject(g_AudioBusMutex, 0) == WAIT_OBJECT_0 for a caller that does
\* not hold the mutex.
TryMutex == g.Mutex /\ MutexFree

\* AudioBus_UpdateLevels(masterL, .., totalVoices, ..): the smoothing of the
\* synth's own peak, then the zero-timeout try and, when it got the mutex, the
\* stores to the header and ReleaseMutex.
UpdateLevels(masterL, totalVoices) ==
    /\ ~crashed /\ cpc = "idle"
    /\ g.Initialized /\ g.Mapped
    /\ LET peak == Smooth(masterL, meters.g_MasterPeakL) IN
       meters' = IF TryMutex
                 THEN [meters EXCEPT !.g_MasterPeakL = peak,
                                     !.hdr.MasterPeakL = peak,
                                     !.hdr.TotalVoices = totalVoices]
                 ELSE [meters EXCEPT !.g_MasterPeakL = peak]
    /\ UNCHANGED notMeters

AudioBus_UpdateLevels ==
    \E masterL \in 0..meters.grid, totalVoices \in VoiceCounts :
        UpdateLevels(masterL, totalVoices)

\* AudioBus_UpdateChannelLevels(channel, peakL, ..) called on its own: the check of
\* the channel, the smoothing, the zero-timeout try and the stores.
UpdateChannelLevels(channel, peakL) ==
    /\ ~crashed /\ cpc = "idle"
    /\ g.Initialized /\ g.Mapped
    /\ LET peak == Smooth(peakL, meters.g_ChannelPeaksL) IN
       meters' = IF channel < 0
                 THEN meters
                 ELSE IF TryMutex
                      THEN [meters EXCEPT !.g_ChannelPeaksL = peak,
                                          !.hdr.PeakLevelL = peak]
                      ELSE [meters EXCEPT !.g_ChannelPeaksL = peak]
    /\ UNCHANGED notMeters

AudioBus_UpdateChannelLevels ==
    \E channel \in {-1, 0}, peakL \in 0..meters.grid :
        UpdateChannelLevels(channel, peakL)

\* AudioBus_UpdateChannelVoices(channel, voiceCount).
AudioBus_UpdateChannelVoices ==
    /\ ~crashed /\ cpc = "idle"
    /\ g.Initialized /\ g.Mapped
    /\ \E channel \in {-1, 0, 1}, voiceCount \in VoiceCounts :
           meters' = IF channel >= 0 /\ TryMutex
                     THEN [meters EXCEPT !.hdr.VoiceCount[channel] = voiceCount]
                     ELSE meters
    /\ UNCHANGED notMeters

\* The sum the loop of AudioBus_UpdateAllChannelVoices makes.
TotalOf(voiceCounts) == voiceCounts[0] + voiceCounts[1]

\* AudioBus_UpdateAllChannelVoices(voiceCounts): under the mutex of a zero-timeout
\* try, every channel's count and their total.
AudioBus_UpdateAllChannelVoices ==
    /\ ~crashed /\ cpc = "idle"
    /\ g.Initialized /\ g.Mapped
    /\ \E voiceCounts \in [{0, 1} -> VoiceCounts] :
           meters' = IF TryMutex
                     THEN [meters EXCEPT !.hdr.VoiceCount = voiceCounts,
                                         !.hdr.TotalVoices = TotalOf(voiceCounts)]
                     ELSE meters
    /\ UNCHANGED notMeters

\* AudioBus_UpdateLatencyInfo(outputLatencyUs, ..).
AudioBus_UpdateLatencyInfo ==
    /\ ~crashed /\ cpc = "idle"
    /\ g.Initialized /\ g.Mapped
    /\ \E outputLatencyUs \in Latencies :
           meters' = IF TryMutex
                     THEN [meters EXCEPT !.hdr.OutputBufferLatencyUs = outputLatencyUs]
                     ELSE meters
    /\ UNCHANGED notMeters

\* ---- MeterSpec: level updates of audio on a grid of peak levels, the host  ----
\* ---- taking the mutex for its panic requests                               ----

MeterInit == InitFor("late", TRUE, 0, MaxPeak)

MeterNext ==
    \/ AudioBus_UpdateLevels
    \/ AudioBus_UpdateChannelLevels
    \/ RequestPanic_Load
    \/ RequestPanic_StoreRequest
    \/ RequestPanic_StoreAck

MeterSpec == MeterInit /\ [][MeterNext]_vars

\* ---- TrySpec: every operation that tries the mutex with a zero timeout,  ----
\* ---- against the operations that hold it                                 ----

TryInit == InitFor("late", TRUE, 0, MaxLevel)

TryNext ==
    \/ AudioBus_UpdateLevels
    \/ AudioBus_UpdateChannelLevels
    \/ AudioBus_UpdateChannelVoices
    \/ AudioBus_UpdateAllChannelVoices
    \/ AudioBus_UpdateLatencyInfo
    \/ PanicStep

TrySpec == TryInit /\ [][TryNext]_vars

\* C35: every update of the master peak or of a channel peak leaves the smoothed
\* value max(input, old * decay), for all inputs and old values on the grid, those
\* with old * decay < input <= old included; and when the try got the mutex the
\* header holds that smoothed value.
C35_SmoothedPeakIsMax ==
    [][/\ \A masterL \in 0..MaxPeak, totalVoices \in VoiceCounts :
             UpdateLevels(masterL, totalVoices) =>
                 /\ meters'.g_MasterPeakL = Max(masterL, Decay(meters.g_MasterPeakL))
                 /\ TryMutex => meters'.hdr.MasterPeakL = meters'.g_MasterPeakL
       /\ \A peakL \in 0..MaxPeak :
             UpdateChannelLevels(0, peakL) =>
                 /\ meters'.g_ChannelPeaksL = Max(peakL, Decay(meters.g_ChannelPeaksL))
                 /\ TryMutex => meters'.hdr.PeakLevelL = meters'.g_ChannelPeaksL]_vars

\* The step is one of the meter updates of the synth.
IsMeterUpdate ==
    \/ AudioBus_UpdateLevels
    \/ AudioBus_UpdateChannelLevels
    \/ AudioBus_UpdateChannelVoices
    \/ AudioBus_UpdateAllChannelVoices
    \/ AudioBus_UpdateLatencyInfo

\* The management thread of an initialised bus is between two operations.
CtlIdle == ~crashed /\ cpc = "idle" /\ g.Initialized /\ g.Mapped

\* C36: when the zero-timeout try of the mutex fails, update_levels,
\* update_channel_voices, update_channel_levels, update_all_channel_voices and
\* update_latency_info still return at once and leave every field of the header as
\* it was (no voice count and no TotalVoices written), clear_panic_ack does
\* nothing, and check_panic_request returns false and starts no acknowledgement.
C36_FailedTryChangesNothing ==
    /\ [][(IsMeterUpdate /\ ~MutexFree) =>
             /\ hdr' = hdr
             /\ meters'.hdr = meters.hdr
             /\ mutexOwner' = mutexOwner /\ cpc' = "idle"]_vars
    /\ [](CtlIdle =>
             /\ ENABLED AudioBus_UpdateLevels
             /\ ENABLED AudioBus_UpdateChannelLevels
             /\ ENABLED AudioBus_UpdateChannelVoices
             /\ ENABLED AudioBus_UpdateAllChannelVoices
             /\ ENABLED AudioBus_UpdateLatencyInfo)
    /\ [](~MutexFree =>
             /\ ~ENABLED ClearPanicAck_Load
             /\ ~CheckPanicRequest(g, hdr, MutexFree)
             /\ ~ENABLED PollPermafrostMixerCommands)

\* While the host holds the mutex for a panic request, an update of the levels has
\* smoothed the synth's peak and left the header's peak as it was.
C36_Witness ==
    /\ mutexOwner = "hctl"
    /\ HasFlag(hdr.Flags, AUDIOBUS_FLAG_PANIC_REQUEST)
    /\ meters.g_MasterPeakL = 1 /\ meters.hdr.MasterPeakL = 0

\* C37: no update of a bit of Flags is lost: PanicRequest stays set until
\* acknowledge_panic clears it, PanicAck until clear_panic_ack or request_panic
\* clears it, AudioEnabled until the frame boundary that has entered DIRECT clears
\* it (or destroy resets the word), also when the clearing of the frame boundary
\* runs at the same time as request_panic, acknowledge_panic or request_takeover:
\* the frame boundary then clears AudioEnabled only in state DIRECT or ahead of the
\* store of a request_takeover in progress, which sets it again.
C37_FlagBitsNeverLost ==
    [][/\ (PanicRequested /\ ~PanicRequested') =>
             (AcknowledgePanic_StoreRequest \/ Destroy_Flags)
       /\ (PanicAcked /\ ~PanicAcked') =>
             (ClearPanicAck_Store \/ RequestPanic_StoreAck \/ Destroy_Flags)
       /\ (AudioEnabled /\ ~AudioEnabled') =>
             \/ /\ ProcessFrameBoundary_StoreFlags
                /\ (hdr.TakeoverState = TAKEOVER_DIRECT \/ cpc = "rt_flags")
             \/ Destroy_Flags]_vars

\* C38: process_frame returns TRUE for a frame only on a ProcessedReady that answers
\* that frame: when its wait consumes the event, the IN buffer the host completed
\* last is its mix of the OUT frame this call published, never a mix the host made
\* of an earlier frame and signalled after that frame had timed out.
C38_AnswerIsOfThisFrame ==
    [][WaitForProcessedAudio_Signalled =>
          inBuf[OtherIndex(hdr.InWriteIndex)] = "fresh"]_vars

\* C39: with destroy running on the management thread at the same time as a
\* frame or a capture hook, no operation reads or writes the region after it has
\* been unmapped: the audio thread is never at an access to the header or the
\* buffers with the region unmapped, and the process takes no access violation.
C39_NoAccessAfterUnmap ==
    /\ ~crashed
    /\ ~g.Mapped => apc \notin AudioDerefs

\* ---- DriftSpec: a host that answers the frames, in time or late, and never ----
\* ---- advances InFrameCounter; takeovers requested and released at any time ----

DriftInit == \E speed \in {"prompt", "late"} : InitWith(speed, FALSE, MaxCount)

DriftNext ==
    \/ ProcessAudioFrame_EnterTakeover
    \/ FrameStep
    \/ TakeoverStep
    \/ ConsumerStep

DriftSpec == DriftInit /\ [][DriftNext]_vars

\* C40: the synth never runs more than 4 frames ahead of the host: with an
\* InFrameCounter that never decreases, OutFrameCounter <= InFrameCounter + 4 in
\* every state after create, across takeovers, timeouts and drift releases.
C40_AtMostFourAhead ==
    /\ [][hdr'.InFrameCounter >= hdr.InFrameCounter]_vars
    /\ [](hdr.OutFrameCounter <= hdr.InFrameCounter + DriftAllowance + 1)
=============================================================================
